---- MODULE Spec2Model ----
(***************************************************************************)
(* Model of the stream orchestration of ip_camera_player.py:               *)
(*   CameraInstance  (start_stream / stop_stream / pause_stream and the    *)
(*                    _on_first_frame_received / _on_error slots)          *)
(*   StreamThread    (run, initialize_camera, start_streaming,             *)
(*                    stop_streaming, pause_streaming)                     *)
(* One CameraInstance is driven by the single-threaded consumer (the Qt    *)
(* main thread).  Every StreamThread the record creates is a worker with   *)
(* its own QThread (run) and its own connect helper (threading.Thread).    *)
(* Signals connected across threads are queued: an emit appends to the     *)
(* consumer's event queue and a later consumer step handles it.            *)
(***************************************************************************)
EXTENDS Integers, Naturals, Sequences, FiniteSets

\* ---- bounds -------------------------------------------------------------
MaxWorkers == 2     \* StreamThread instances one record creates
MaxFrames  == 2     \* successful cap.read() calls of one worker
MaxOps     == 3     \* start/stop/pause commands issued by the consumer
MaxCameras == 3     \* cameras one CameraManager is given over its life
MaxEntries == 3     \* dicts in a stored 'cameras' list written earlier
MaxPwLen   == 2     \* code points of a password handed to the codec
MaxTokenLen == 5    \* characters of a token handed to the codec
MaxCalls   == 2     \* calls chained on one str or made on one pair of records
MaxSecrets == 2     \* cameras added with a password
MaxFleet   == 2     \* cameras added to a registry whose records stream
MaxCommands == 2    \* start/stop/pause commands given to those records

Workers == 1..MaxWorkers
NoThread == 0       \* stream_thread is None

VARIABLES
  state,                    \* CameraInstance.state
  error_message,            \* CameraInstance.error_message
  stream_thread,            \* CameraInstance.stream_thread (NoThread or a worker)
  created,                  \* number of StreamThread objects constructed so far
  wpc,                      \* position of each worker's run()
  hpc,                      \* position of each worker's connect helper
  cap,                      \* StreamThread.__cap : "None" or "set"
  handle,                   \* the cv2.VideoCapture object of the worker
  released,                 \* number of release() calls on that object
  stream_is_running,        \* StreamThread.__stream_is_running
  stream_is_paused,         \* StreamThread.__stream_is_paused
  first_frame_was_received, \* StreamThread.__first_frame_was_received
  frames,                   \* successful reads of each worker
  emitted,                  \* every signal each worker object has emitted, in order
  queue,                    \* queued slot calls pending in the consumer's event loop
  cpc,                      \* position of the consumer inside a blocking handler
  ops,                      \* commands issued so far
  lastOp,                   \* the consumer handler that returned last
  pauseWindow,              \* pause(true) returned on a RUNNING record, no pause(false) since
  sincePause,               \* frames the record's worker emitted inside the pause window
  timedOut,                 \* workers whose join(timeout) returned with the helper alive
  camera_id,                \* StreamThread.__camera_id: the record a worker was built for
  cameras,                  \* CameraManager.cameras
  selected_camera_id,       \* CameraManager.selected_camera_id
  settings,                 \* the QSettings keys: 'cameras', 'selected_camera_id', flat ones
  status,                   \* QSettings.status()
  signals,                  \* signals the last CameraManager call emitted
  result,                   \* what the last CameraManager call returned
  uuids,                    \* uuid4 values drawn so far
  given,                    \* the str a caller of the codec starts from, or the two records shown
  calls                     \* the calls made so far: function, argument, return

wvars == <<wpc, hpc, cap, handle, released, stream_is_running, stream_is_paused,
           first_frame_was_received, frames, emitted>>
rvars == <<state, error_message, stream_thread>>
vars == <<state, error_message, stream_thread, created, wpc, hpc, cap, handle,
          released, stream_is_running, stream_is_paused, first_frame_was_received,
          frames, emitted, queue, cpc, ops, lastOp, pauseWindow, sincePause,
          timedOut, camera_id, cameras, selected_camera_id, settings, status,
          signals, result, uuids, given, calls>>
cvars == <<given, calls>>
\* what a CameraManager call leaves alone, and what a stream step leaves alone
svars == <<state, error_message, stream_thread, created, wpc, hpc, cap, handle,
           released, stream_is_running, stream_is_paused, first_frame_was_received,
           frames, emitted, queue, cpc, ops, lastOp, pauseWindow, sincePause,
           timedOut, camera_id, cvars>>
regvars == <<cameras, selected_camera_id, settings, status, signals, result, uuids,
             camera_id, cvars>>

\* ---- CameraState --------------------------------------------------------
STOPPED  == "stopped"
STARTING == "starting"
RUNNING  == "running"
PAUSED   == "paused"
ERROR    == "error"
CameraState == {STOPPED, STARTING, RUNNING, PAUSED, ERROR}

\* ---- messages of the three worker-level failures ------------------------
TimeoutMsg    == "Connection timeout"
OpenFailedMsg == "Failed to open camera stream"
ReadFailedMsg == "Error reading frame. Stopping the video stream."

\* ---- signals ------------------------------------------------------------
Ev(w, k, m) == [w |-> w, kind |-> k, msg |-> m]

\* The record connects first_frame_received and error_signal, the display
\* layer connects frame_received; status_signal has no slot on this path.
Queued(k) == k \in {"frame", "first_frame", "error"}

EmitSeq(w, ks, m) ==
  /\ emitted' = [emitted EXCEPT ![w] = @ \o ks]
  /\ LET qs == SelectSeq(ks, Queued)
     IN  queue' = queue \o [i \in 1..Len(qs) |-> Ev(w, qs[i], m)]

\* ---- CameraManager.__init__ over a QSettings store holding no key ---------
\* Camera ids are the uuid4 values 1, 2, ...; 0 stands for Python's None and
\* for a key the store does not hold.
None == 0
NoError == 0          \* QSettings.NoError
AccessError == 1      \* QSettings.AccessError
NoValue == [kind |-> "absent", list |-> <<>>]
\* The flat keys of the single-camera version: which of them the store holds,
\* and the values of 'password' and 'ip' ('' where the key is not held).
NoLegacy == [keys |-> {}, password |-> <<>>, ip |-> ""]
Result(op, val) == [op |-> op, val |-> val]

\* self.cameras = [], self.selected_camera_id = None; no call made yet.
ManagerInit ==
  /\ cameras = <<>>
  /\ selected_camera_id = None
  /\ signals = <<>>
  /\ result = Result("none", None)

RegistryInit ==
  /\ ManagerInit
  /\ settings = [cameras |-> NoValue, selected_camera_id |-> None,
                 legacy |-> NoLegacy]
  /\ status = NoError
  /\ uuids = 0

\* ---- initial state: CameraInstance.__init__, no StreamThread yet --------
\* The per-worker fields hold the values StreamThread.__init__ gives them.
StreamInit ==
  /\ state = STOPPED
  /\ error_message = ""
  /\ stream_thread = NoThread
  /\ created = 0
  /\ wpc = [w \in Workers |-> "new"]
  /\ hpc = [w \in Workers |-> "new"]
  /\ cap = [w \in Workers |-> "None"]
  /\ handle = [w \in Workers |-> "absent"]
  /\ released = [w \in Workers |-> 0]
  /\ stream_is_running = [w \in Workers |-> FALSE]
  /\ stream_is_paused = [w \in Workers |-> FALSE]
  /\ first_frame_was_received = [w \in Workers |-> FALSE]
  /\ frames = [w \in Workers |-> 0]
  /\ emitted = [w \in Workers |-> <<>>]
  /\ queue = <<>>
  /\ cpc = "idle"
  /\ ops = 0
  /\ lastOp = "none"
  /\ pauseWindow = FALSE
  /\ sincePause = 0
  /\ timedOut = [w \in Workers |-> FALSE]
  /\ camera_id = [w \in Workers |-> 0]

\* no codec call made
CodecInit ==
  /\ given = <<>>
  /\ calls = <<>>

Init == StreamInit /\ RegistryInit /\ CodecInit

\* ---- QThread primitives -------------------------------------------------
\* QThread.isRunning(): start() has been called and run() has not returned.
isRunning(w) == wpc[w] \notin {"new", "finished"}

\* QThread.wait() called from another thread returns once run() has returned.
wait_nojoin(w) == TRUE

wait(w) == wpc[w] = "finished"

\* The tail of stop_streaming: release the capture handle and forget it.
ReleaseCap(w) ==
  IF cap[w] # "None"
  THEN /\ handle' = [handle EXCEPT ![w] = "released"]
       /\ released' = [released EXCEPT ![w] = @ + 1]
       /\ cap' = [cap EXCEPT ![w] = "None"]
  ELSE UNCHANGED <<cap, handle, released>>

\* ---- StreamThread.run and its connect helper ----------------------------
\* run() starts the helper and blocks in init_thread.join(timeout); the worker
\* is at "join" from start() on.

\* initialize_camera: cv2.VideoCapture(url) returns; the handle is opened or not.
initialize_camera(w, opened) ==
  /\ hpc[w] = "connecting"
  /\ hpc' = [hpc EXCEPT ![w] = "done"]
  /\ cap' = [cap EXCEPT ![w] = "set"]
  /\ handle' = [handle EXCEPT ![w] = IF opened THEN "open" ELSE "failed"]
  /\ UNCHANGED <<rvars, created, wpc, released, stream_is_running,
                 stream_is_paused, first_frame_was_received, frames, emitted,
                 queue, cpc, ops, lastOp, pauseWindow, sincePause>>
  /\ UNCHANGED <<timedOut, regvars>>

\* Where run() goes after the timeout error: self.stop_streaming(), return.
TimeoutTarget_noreturn == "loop"

TimeoutTarget == "stopping"

\* join(timeout) returned while the helper is still alive.
run_timeout(w) ==
  /\ wpc[w] = "join"
  /\ hpc[w] = "connecting"
  /\ EmitSeq(w, <<"error">>, TimeoutMsg)
  /\ wpc' = [wpc EXCEPT ![w] = TimeoutTarget]
  /\ UNCHANGED <<rvars, created, hpc, cap, handle, released, stream_is_running,
                 stream_is_paused, first_frame_was_received, frames,
                 cpc, ops, lastOp, pauseWindow, sincePause>>
  /\ timedOut' = [timedOut EXCEPT ![w] = TRUE]
  /\ UNCHANGED regvars

\* The helper finished in time: either the open failed, or the loop is entered.
OpenFailed(w) == cap[w] = "None" \/ handle[w] # "open"

run_connected(w) ==
  /\ wpc[w] = "join"
  /\ hpc[w] = "done"
  /\ IF OpenFailed(w)
     THEN /\ EmitSeq(w, <<"error">>, OpenFailedMsg)
          /\ wpc' = [wpc EXCEPT ![w] = "stopping"]
     ELSE /\ wpc' = [wpc EXCEPT ![w] = "loop"]
          /\ UNCHANGED <<emitted, queue>>
  /\ UNCHANGED <<rvars, created, hpc, cap, handle, released, stream_is_running,
                 stream_is_paused, first_frame_was_received, frames,
                 cpc, ops, lastOp, pauseWindow, sincePause>>
  /\ UNCHANGED <<timedOut, regvars>>

\* self.stop_streaming() called by run() itself after an error: wait() on the
\* caller's own thread returns at once, then the handle (if any) is released
\* and run() returns.
run_stop_streaming(w) ==
  /\ wpc[w] = "stopping"
  /\ EmitSeq(w, <<"status">>, "")
  /\ stream_is_running' = [stream_is_running EXCEPT ![w] = FALSE]
  /\ ReleaseCap(w)
  /\ wpc' = [wpc EXCEPT ![w] = "finished"]
  /\ UNCHANGED <<rvars, created, hpc, stream_is_paused,
                 first_frame_was_received, frames,
                 cpc, ops, lastOp, pauseWindow, sincePause>>
  /\ UNCHANGED <<timedOut, regvars>>

\* One evaluation of the loop head: the running flag, the handle, the pause flag.
LoopTarget_nopause(w) ==
  IF ~stream_is_running[w] THEN "finished"
  ELSE IF cap[w] # "None" /\ handle[w] = "open" THEN "read"
  ELSE "loop"

LoopTarget_norunning(w) ==
  IF cap[w] # "None" /\ handle[w] = "open" /\ ~stream_is_paused[w] THEN "read"
  ELSE "loop"

LoopTarget(w) ==
  IF ~stream_is_running[w] THEN "finished"
  ELSE IF cap[w] # "None" /\ handle[w] = "open" /\ ~stream_is_paused[w] THEN "read"
  ELSE "loop"

run_loop(w) ==
  /\ wpc[w] = "loop"
  /\ LoopTarget(w) # "loop"
  /\ wpc' = [wpc EXCEPT ![w] = LoopTarget(w)]
  /\ UNCHANGED <<rvars, created, hpc, cap, handle, released, stream_is_running,
                 stream_is_paused, first_frame_was_received, frames, emitted,
                 queue, cpc, ops, lastOp, pauseWindow, sincePause>>
  /\ UNCHANGED <<timedOut, regvars>>

\* The signals of one successful read: frame_received, and while the
\* first-frame flag is unset the 'Streaming started' status and first_frame.
FrameSignals(flag) ==
  IF flag THEN <<"frame">> ELSE <<"frame", "status", "first_frame">>

\* Where run() goes after a failed read: break leaves the loop.
ReadFailTarget_nobreak == "loop"

ReadFailTarget == "finished"

\* ret, frame = cap.read() and the rest of the iteration.
run_read(w, ret) ==
  /\ wpc[w] = "read"
  /\ IF ret
     THEN /\ frames[w] < MaxFrames
          /\ frames' = [frames EXCEPT ![w] = @ + 1]
          /\ EmitSeq(w, FrameSignals(first_frame_was_received[w]), "")
          /\ first_frame_was_received' = [first_frame_was_received EXCEPT ![w] = TRUE]
          /\ sincePause' = IF pauseWindow /\ stream_thread = w
                           THEN sincePause + 1 ELSE sincePause
          /\ wpc' = [wpc EXCEPT ![w] = "loop"]
     ELSE /\ EmitSeq(w, <<"error">>, ReadFailedMsg)
          /\ wpc' = [wpc EXCEPT ![w] = ReadFailTarget]
          /\ UNCHANGED <<frames, first_frame_was_received, sincePause>>
  /\ UNCHANGED <<rvars, created, hpc, cap, handle, released, stream_is_running,
                 stream_is_paused, cpc, ops, lastOp, pauseWindow>>
  /\ UNCHANGED <<timedOut, regvars>>

\* ---- StreamThread methods the consumer calls ----------------------------
\* stop_streaming up to wait(): status signal, running := False, quit().
SignalStop(w) ==
  /\ EmitSeq(w, <<"status">>, "")
  /\ stream_is_running' = [stream_is_running EXCEPT ![w] = FALSE]

\* disconnect() of first_frame_received and error_signal: the slot proxies
\* are disabled, so calls of these two signals still queued are dropped.
\* frame_received stays connected.
Disconnected(w, q) ==
  SelectSeq(q, LAMBDA e : ~(e.w = w /\ e.kind \in {"first_frame", "error"}))

\* A StreamThread the record no longer references and whose run() has
\* returned is garbage: its fields go back to their constructor values.  The
\* handle and the helper are kept, the helper still holds the object.
Forget(f, old, init) == IF old = NoThread THEN f ELSE [f EXCEPT ![old] = init]

ForgetWorker(old) ==
  /\ stream_is_paused' = Forget(stream_is_paused, old, FALSE)
  /\ first_frame_was_received' = Forget(first_frame_was_received, old, FALSE)
  /\ frames' = Forget(frames, old, 0)

\* ---- CameraInstance.start_stream ----------------------------------------
\* The new StreamThread, the two connects, and start_streaming up to the
\* 'Starting streaming' status: running := True, paused := False, start().
StartState_kept == state

StartState == STARTING

StartThread(old, w) ==
  /\ state' = StartState
  /\ error_message' = ""
  /\ stream_thread' = w
  /\ created' = w
  /\ stream_is_running' =
       [Forget(stream_is_running, old, FALSE) EXCEPT ![w] = TRUE]
  /\ emitted' = [Forget(emitted, old, <<>>) EXCEPT ![w] = <<"status">>]
  /\ ForgetWorker(old)
  /\ wpc' = [wpc EXCEPT ![w] = "join"]
  /\ hpc' = [hpc EXCEPT ![w] = "connecting"]
  /\ cpc' = "start_reset"
  /\ pauseWindow' = FALSE
  /\ sincePause' = 0

StartNew(old, w) == StartThread(old, w) /\ UNCHANGED queue

\* Whether start_stream has to stop the previous worker first.
MustStop_never(t) == FALSE

MustStop(t) == t # NoThread /\ isRunning(t)

start_stream ==
  /\ cpc = "idle"
  /\ ops < MaxOps
  /\ created < MaxWorkers
  /\ ops' = ops + 1
  /\ IF MustStop(stream_thread)
     THEN /\ SignalStop(stream_thread)
          /\ cpc' = "start_wait"
          /\ lastOp' = "restart"
          /\ UNCHANGED <<rvars, created, wpc, hpc, stream_is_paused,
                         first_frame_was_received, frames, pauseWindow,
                         sincePause>>
     ELSE /\ StartNew(stream_thread, created + 1)
          /\ lastOp' = "start"
  /\ UNCHANGED <<cap, handle, released>>
  /\ UNCHANGED <<timedOut, regvars>>

\* wait() returned: release the old handle, drop the old worker, build the new.
start_stream_joined ==
  /\ cpc = "start_wait"
  /\ wait(stream_thread)
  /\ ReleaseCap(stream_thread)
  /\ StartNew(stream_thread, created + 1)
  /\ UNCHANGED <<ops, lastOp>>
  /\ UNCHANGED <<timedOut, regvars>>

\* start_streaming's last statement: the first-frame flag is reset.
start_streaming_reset ==
  /\ cpc = "start_reset"
  /\ first_frame_was_received' =
       [first_frame_was_received EXCEPT ![stream_thread] = FALSE]
  /\ cpc' = "idle"
  /\ UNCHANGED <<rvars, created, wpc, hpc, cap, handle, released,
                 stream_is_running, stream_is_paused, frames, emitted, queue,
                 ops, lastOp, pauseWindow, sincePause>>
  /\ UNCHANGED <<timedOut, regvars>>

\* ---- CameraInstance.stop_stream -----------------------------------------
StopState_kept == state

StopState == STOPPED

Stopped(old) ==
  /\ state' = StopState
  /\ error_message' = ""
  /\ stream_thread' = NoThread
  /\ queue' = IF old = NoThread THEN queue ELSE Disconnected(old, queue)
  /\ stream_is_running' = Forget(stream_is_running, old, FALSE)
  /\ emitted' = Forget(emitted, old, <<>>)
  /\ ForgetWorker(old)
  /\ cpc' = "idle"
  /\ lastOp' = "stop"
  /\ pauseWindow' = FALSE
  /\ sincePause' = 0

stop_stream ==
  /\ cpc = "idle"
  /\ ops < MaxOps
  /\ ops' = ops + 1
  /\ IF stream_thread # NoThread /\ isRunning(stream_thread)
     THEN /\ SignalStop(stream_thread)
          /\ cpc' = "stop_wait"
          /\ UNCHANGED <<rvars, lastOp, pauseWindow, sincePause,
                         stream_is_paused, first_frame_was_received, frames>>
     ELSE Stopped(stream_thread)
  /\ UNCHANGED <<created, wpc, hpc, cap, handle, released>>
  /\ UNCHANGED <<timedOut, regvars>>

stop_stream_joined ==
  /\ cpc = "stop_wait"
  /\ wait(stream_thread)
  /\ ReleaseCap(stream_thread)
  /\ Stopped(stream_thread)
  /\ UNCHANGED <<created, wpc, hpc, ops>>
  /\ UNCHANGED <<timedOut, regvars>>

\* ---- CameraInstance.pause_stream ----------------------------------------
PauseState(paused) == IF paused THEN PAUSED ELSE RUNNING

CanPause_dead(t) == t # NoThread

CanPause(t) == t # NoThread /\ isRunning(t)

pause_stream(paused) ==
  /\ cpc = "idle"
  /\ ops < MaxOps
  /\ ops' = ops + 1
  /\ lastOp' = IF paused THEN "pause_true" ELSE "pause_false"
  /\ IF CanPause(stream_thread)
     THEN /\ stream_is_paused' = [stream_is_paused EXCEPT ![stream_thread] = paused]
          /\ EmitSeq(stream_thread, <<"status">>, "")
          /\ state' = PauseState(paused)
          /\ pauseWindow' = IF paused THEN (pauseWindow \/ state = RUNNING) ELSE FALSE
          /\ sincePause' = IF paused /\ pauseWindow THEN sincePause ELSE 0
          /\ UNCHANGED <<error_message, stream_thread>>
     ELSE UNCHANGED <<rvars, stream_is_paused, emitted, queue, pauseWindow,
                      sincePause>>
  /\ UNCHANGED <<created, wpc, hpc, cap, handle, released, stream_is_running,
                 first_frame_was_received, frames, cpc>>
  /\ UNCHANGED <<timedOut, regvars>>

\* ---- Windows.handle_camera_retry ------------------------------------------
\* stop_stream() if the worker is running, then error_message = "" and
\* state = STOPPED, then start_stream(), which finds no running worker.
RetryOp == IF state = ERROR THEN "retry" ELSE "retry_noerror"

handle_camera_retry ==
  /\ cpc = "idle"
  /\ ops < MaxOps
  /\ created < MaxWorkers
  /\ ops' = ops + 1
  /\ IF stream_thread # NoThread /\ isRunning(stream_thread)
     THEN /\ SignalStop(stream_thread)
          /\ cpc' = "retry_wait"
          /\ UNCHANGED <<rvars, created, wpc, hpc, stream_is_paused,
                         first_frame_was_received, frames, lastOp, pauseWindow,
                         sincePause>>
     ELSE /\ StartNew(stream_thread, created + 1)
          /\ lastOp' = RetryOp
  /\ UNCHANGED <<cap, handle, released, timedOut, regvars>>

\* stop_stream's wait() returned: its tail (release, disconnect, drop the
\* worker), the two assignments, and start_stream on a record without worker.
handle_camera_retry_joined ==
  /\ cpc = "retry_wait"
  /\ wait(stream_thread)
  /\ ReleaseCap(stream_thread)
  /\ StartThread(stream_thread, created + 1)
  /\ queue' = Disconnected(stream_thread, queue)
  /\ lastOp' = RetryOp
  /\ UNCHANGED <<ops, timedOut, regvars>>

\* ---- the consumer's event loop: one queued slot call --------------------
on_first_frame_received == [state |-> RUNNING, error_message |-> ""]

on_error_nomsg(msg) == [state |-> ERROR, error_message |-> error_message]

on_error(msg) == [state |-> ERROR, error_message |-> msg]

handle_event ==
  /\ cpc = "idle"
  /\ queue # <<>>
  /\ LET e == Head(queue)
         r == IF e.kind = "first_frame" THEN on_first_frame_received
              ELSE IF e.kind = "error" THEN on_error(e.msg)
              ELSE [state |-> state, error_message |-> error_message]
     IN  /\ state' = r.state
         /\ error_message' = r.error_message
         /\ lastOp' = e.kind
  /\ queue' = Tail(queue)
  /\ UNCHANGED <<stream_thread, created, wvars, cpc, ops, pauseWindow,
                 sincePause>>
  /\ UNCHANGED <<timedOut, regvars>>

\* ---- specification ------------------------------------------------------
WorkerStep(w) ==
  \/ \E opened \in BOOLEAN : initialize_camera(w, opened)
  \/ run_timeout(w)
  \/ run_connected(w)
  \/ run_stop_streaming(w)
  \/ run_loop(w)
  \/ \E ret \in BOOLEAN : run_read(w, ret)

Next ==
  \/ start_stream
  \/ start_stream_joined
  \/ start_streaming_reset
  \/ stop_stream
  \/ stop_stream_joined
  \/ \E paused \in BOOLEAN : pause_stream(paused)
  \/ handle_camera_retry
  \/ handle_camera_retry_joined
  \/ handle_event
  \/ \E w \in Workers : WorkerStep(w)

Spec == Init /\ [][Next]_vars

\* A thread that can run is scheduled: a run() that has reached its own
\* stop_streaming call is not postponed forever.  Nothing is assumed of the
\* connect helper, cv2.VideoCapture(url) may never return.
FairSpec == Spec /\ \A w \in Workers : WF_vars(run_stop_streaming(w))

\* run() of a started worker goes on: the QThread is scheduled,
\* init_thread.join(timeout) returns after the timeout at the latest and
\* cap.read() returns.  The consumer blocked in wait() goes on once run() has
\* returned.  Nothing is assumed of the connect helper.
RunStep(w) ==
  \/ run_timeout(w)
  \/ run_connected(w)
  \/ run_stop_streaming(w)
  \/ run_loop(w)
  \/ \E ret \in BOOLEAN : run_read(w, ret)

StopFairSpec ==
  Spec /\ WF_vars(stop_stream_joined) /\ \A w \in Workers : WF_vars(RunStep(w))

TypeOK ==
  /\ state \in CameraState
  /\ stream_thread \in Workers \cup {NoThread}
  /\ created \in 0..MaxWorkers
  /\ ops \in 0..MaxOps
  /\ \A w \in Workers : frames[w] \in 0..MaxFrames
  /\ \A w \in Workers : timedOut[w] \in BOOLEAN
  /\ uuids \in 0..MaxCameras
  /\ Len(cameras) <= MaxCameras
  /\ selected_camera_id \in 0..(MaxCameras + 2)
  /\ status \in {NoError, AccessError}


\* ======================================================================
\* PasswordEncryption (camera_security.py): the credential codec
\* ======================================================================
\* A str is the sequence of its code points, bytes are a sequence of 0..255.
\* A step that can raise returns [ok, val]; ok is FALSE where Python raises.
Ok(v) == [ok |-> TRUE, val |-> v]
Err == [ok |-> FALSE, val |-> <<>>]

RECURSIVE Flatten(_)
Flatten(ss) == IF ss = <<>> THEN <<>> ELSE Head(ss) \o Flatten(Tail(ss))

\* a ^ b on bytes
RECURSIVE Xor(_, _)
Xor(a, b) ==
  IF a = 0 /\ b = 0 THEN 0
  ELSE ((a + b) % 2) + 2 * Xor(a \div 2, b \div 2)

\* hashlib.sha256(b"IPCameraPlayer_SecureKey_v1.0").digest()
Key ==
  <<45, 168, 122, 76, 240, 108, 84, 126, 11, 99, 166, 91, 227, 215, 46, 199,
    143, 159, 69, 77, 103, 53, 78, 176, 161, 198, 67, 169, 56, 142, 21, 79>>

\* bytes(a ^ b for a, b in zip(data, key_repeated))
xor_encrypt_decrypt(data) ==
  [i \in 1..Len(data) |-> Xor(data[i], Key[((i - 1) % Len(Key)) + 1])]

\* ---- str.encode('utf-8'), bytes.decode('utf-8'), str.encode('ascii') ----
IsSurrogate(c) == c >= 55296 /\ c <= 57343

Utf8Char(c) ==
  IF c < 128 THEN <<c>>
  ELSE IF c < 2048 THEN <<192 + (c \div 64), 128 + (c % 64)>>
  ELSE IF c < 65536
    THEN <<224 + (c \div 4096), 128 + ((c \div 64) % 64), 128 + (c % 64)>>
  ELSE <<240 + (c \div 262144), 128 + ((c \div 4096) % 64),
         128 + ((c \div 64) % 64), 128 + (c % 64)>>

\* 'surrogates not allowed' is the one error utf-8 encoding of a str has.
utf8_encode(s) ==
  IF \E i \in 1..Len(s) : IsSurrogate(s[i]) THEN Err
  ELSE Ok(Flatten([i \in 1..Len(s) |-> Utf8Char(s[i])]))

Cont(b) == b >= 128 /\ b <= 191

\* The strict decoder: no overlong form, no surrogate, nothing above U+10FFFF.
RECURSIVE utf8_decode(_)
utf8_decode(bs) ==
  IF bs = <<>> THEN Ok(<<>>)
  ELSE
    LET b == bs[1]
        n == Len(bs)
        len == IF b < 128 THEN 1
               ELSE IF b >= 194 /\ b <= 223 THEN 2
               ELSE IF b >= 224 /\ b <= 239 THEN 3
               ELSE IF b >= 240 /\ b <= 244 THEN 4
               ELSE 0
        lo == IF b = 224 THEN 160 ELSE IF b = 240 THEN 144 ELSE 128
        hi == IF b = 237 THEN 159 ELSE IF b = 244 THEN 143 ELSE 191
        good == /\ len > 0
                /\ n >= len
                /\ len >= 2 => (bs[2] >= lo /\ bs[2] <= hi)
                /\ \A k \in 3..len : Cont(bs[k])
        c == IF len = 1 THEN b
             ELSE IF len = 2 THEN (b - 192) * 64 + (bs[2] - 128)
             ELSE IF len = 3
               THEN (b - 224) * 4096 + (bs[2] - 128) * 64 + (bs[3] - 128)
             ELSE (b - 240) * 262144 + (bs[2] - 128) * 4096
                    + (bs[3] - 128) * 64 + (bs[4] - 128)
    IN  IF ~good THEN Err
        ELSE LET rest == utf8_decode(SubSeq(bs, len + 1, n))
             IN  IF rest.ok THEN Ok(<<c>> \o rest.val) ELSE Err

ascii_encode(s) == IF \E i \in 1..Len(s) : s[i] > 127 THEN Err ELSE Ok(s)

\* ---- base64.b64encode, base64.b64decode ---------------------------------
Eq == 61       \* '='

\* the standard alphabet: A-Z a-z 0-9 + /
B64Char(v) ==
  IF v < 26 THEN 65 + v
  ELSE IF v < 52 THEN 97 + (v - 26)
  ELSE IF v < 62 THEN 48 + (v - 52)
  ELSE IF v = 62 THEN 43 ELSE 47

\* the 6-bit value of a character, 64 for a character outside the alphabet
B64Value(ch) ==
  IF ch >= 65 /\ ch <= 90 THEN ch - 65
  ELSE IF ch >= 97 /\ ch <= 122 THEN ch - 97 + 26
  ELSE IF ch >= 48 /\ ch <= 57 THEN ch - 48 + 52
  ELSE IF ch = 43 THEN 62
  ELSE IF ch = 47 THEN 63 ELSE 64

\* the '=' characters that close a last group of n bytes (n is 1 or 2)
Padding_none(n) == <<>>

Padding(n) == IF n = 1 THEN <<Eq, Eq>> ELSE <<Eq>>

RECURSIVE b64encode(_)
b64encode(bs) ==
  LET n == Len(bs)
  IN  IF n = 0 THEN <<>>
      ELSE IF n = 1
        THEN <<B64Char(bs[1] \div 4), B64Char((bs[1] % 4) * 16)>> \o Padding(1)
      ELSE IF n = 2
        THEN <<B64Char(bs[1] \div 4),
               B64Char((bs[1] % 4) * 16 + (bs[2] \div 16)),
               B64Char((bs[2] % 16) * 4)>> \o Padding(2)
      ELSE <<B64Char(bs[1] \div 4),
             B64Char((bs[1] % 4) * 16 + (bs[2] \div 16)),
             B64Char((bs[2] % 16) * 4 + (bs[3] \div 64)),
             B64Char(bs[3] % 64)>> \o b64encode(SubSeq(bs, 4, n))

\* binascii.a2b_base64 without strict_mode: a character outside the alphabet
\* is discarded, '=' ends the input once it completes a group that holds at
\* least two characters, and a group left open at the end is an error.
RECURSIVE a2b_base64(_, _, _, _, _)
a2b_base64(s, quad_pos, leftchar, pads, out) ==
  IF s = <<>> THEN (IF quad_pos # 0 THEN Err ELSE Ok(out))
  ELSE
    LET ch == Head(s)
        v == B64Value(ch)
    IN  IF ch = Eq
        THEN IF quad_pos >= 2 /\ quad_pos + pads + 1 >= 4 THEN Ok(out)
             ELSE a2b_base64(Tail(s), quad_pos, leftchar,
                             IF quad_pos >= 2 THEN pads + 1 ELSE pads, out)
        ELSE IF v = 64 THEN a2b_base64(Tail(s), quad_pos, leftchar, pads, out)
        ELSE IF quad_pos = 0 THEN a2b_base64(Tail(s), 1, v, 0, out)
        ELSE IF quad_pos = 1
          THEN a2b_base64(Tail(s), 2, v % 16, 0,
                          Append(out, leftchar * 4 + (v \div 16)))
        ELSE IF quad_pos = 2
          THEN a2b_base64(Tail(s), 3, v % 4, 0,
                          Append(out, leftchar * 16 + (v \div 4)))
        ELSE a2b_base64(Tail(s), 0, 0, 0, Append(out, leftchar * 64 + v))

b64decode(s) == a2b_base64(s, 0, 0, 0, <<>>)

\* ---- encrypt_password, decrypt_password, is_encrypted -------------------
\* '' for an empty password and on any exception.
encrypt_password(password) ==
  IF password = <<>> THEN <<>>
  ELSE LET bs == utf8_encode(password)
       IN  IF ~bs.ok THEN <<>>
           ELSE b64encode(xor_encrypt_decrypt(bs.val))

decrypt_password(encrypted_password) ==
  IF encrypted_password = <<>> THEN <<>>
  ELSE LET a == ascii_encode(encrypted_password)
           b == IF a.ok THEN b64decode(a.val) ELSE Err
           t == IF b.ok THEN utf8_decode(xor_encrypt_decrypt(b.val)) ELSE Err
       IN  IF t.ok THEN t.val ELSE <<>>

is_encrypted(password) ==
  /\ password # <<>>
  /\ ascii_encode(password).ok
  /\ b64decode(password).ok
  /\ \A i \in 1..Len(password) : password[i] = Eq \/ B64Value(password[i]) # 64

\* ---- the codec called on a given str ------------------------------------
\* Passwords: 'a', e-acute, the euro sign and an unpaired surrogate, the
\* code points that take one, two and three bytes and the one utf-8 refuses.
\* Tokens: 'T' and 'A' of the alphabet, '=' and '!'.
PasswordChars == {97, 233, 8364, 56448}
TokenChars == {84, 65, Eq, 33}
Strs(chars, n) == UNION {[1..k -> chars] : k \in 0..n}
Passwords == Strs(PasswordChars, MaxPwLen)
Tokens == Strs(TokenChars, MaxTokenLen)

Call(fn, arg, ret) == [fn |-> fn, arg |-> arg, ret |-> ret]

\* A call is made on the given str or on the str the last call returned.
Args ==
  {given} \cup (IF calls # <<>> /\ calls[Len(calls)].fn # "is_encrypted"
                THEN {calls[Len(calls)].ret} ELSE {})

call_encrypt_password(x) ==
  /\ Len(calls) < MaxCalls
  /\ calls' = Append(calls, Call("encrypt_password", x, encrypt_password(x)))
  /\ UNCHANGED <<given, timedOut, camera_id, cameras, selected_camera_id,
                 settings, status, signals, result, uuids>>
  /\ UNCHANGED <<state, error_message, stream_thread, created, wvars, queue,
                 cpc, ops, lastOp, pauseWindow, sincePause>>

call_decrypt_password(x) ==
  /\ Len(calls) < MaxCalls
  /\ calls' = Append(calls, Call("decrypt_password", x, decrypt_password(x)))
  /\ UNCHANGED <<given, timedOut, camera_id, cameras, selected_camera_id,
                 settings, status, signals, result, uuids>>
  /\ UNCHANGED <<state, error_message, stream_thread, created, wvars, queue,
                 cpc, ops, lastOp, pauseWindow, sincePause>>

call_is_encrypted(x) ==
  /\ Len(calls) < MaxCalls
  /\ calls' = Append(calls, Call("is_encrypted", x, is_encrypted(x)))
  /\ UNCHANGED <<given, timedOut, camera_id, cameras, selected_camera_id,
                 settings, status, signals, result, uuids>>
  /\ UNCHANGED <<state, error_message, stream_thread, created, wvars, queue,
                 cpc, ops, lastOp, pauseWindow, sincePause>>

CodecStart ==
  /\ StreamInit
  /\ RegistryInit
  /\ given \in Passwords \cup Tokens
  /\ calls = <<>>

CodecNext ==
  \/ \E x \in Args : call_encrypt_password(x)
  \/ \E x \in Args : call_decrypt_password(x)
  \/ \E x \in Args : call_is_encrypted(x)

CodecSpec == CodecStart /\ [][CodecNext]_vars

\* ======================================================================
\* CameraManager: the ordered registry of cameras and its QSettings store
\* ======================================================================
\* A camera is held by the fields that decide what the registry does:
\* [id, name, ip_address, password, state].  The inputs of add_camera are a name and an
\* ip_address that are missing from the config, empty, or given.
NoKey == "<no key>"
Names == {NoKey, "", "Camera"}
Hosts == {NoKey, "", "192.168.1.100"}

\* not config.get(field): the key is missing or its value is empty.
Truthy(v) == v \notin {NoKey, ""}

Valid_nameonly(name, ip_address) == Truthy(name)

Valid(name, ip_address) == Truthy(name) /\ Truthy(ip_address)

CameraIds == 1..(MaxCameras + 1)      \* the last one is never handed out
Indexes == (0 - 1)..MaxCameras        \* new_index arguments
SaveOutcomes == {NoError, AccessError} \* status() after sync()

Signal(name, id) == [signal |-> name, id |-> id]

Ids(s) == [i \in 1..Len(s) |-> s[i].id]

\* get_camera: the first camera with that id; 0 when there is none.
get_camera(s, id) ==
  IF \E i \in 1..Len(s) : s[i].id = id
  THEN CHOOSE i \in 1..Len(s) : s[i].id = id /\ \A j \in 1..(i - 1) : s[j].id # id
  ELSE 0

\* [c for c in self.cameras if c.id != camera_id]
Without(s, id) == SelectSeq(s, LAMBDA c : c.id # id)

\* list.insert(i, x) with Python's treatment of i < 0 and i > len.
PyInsert(s, i, x) ==
  LET n == Len(s)
      k == IF i < 0 THEN (IF n + i < 0 THEN 0 ELSE n + i)
           ELSE IF i > n THEN n ELSE i
  IN  SubSeq(s, 1, k) \o <<x>> \o SubSeq(s, k + 1, n)

\* ---- CameraInstance.to_dict / from_dict and the JSON text ---------------
\* "password": encrypt_password(self.password)
StoredPassword_plain(password) == password

StoredPassword(password) == encrypt_password(password)

to_dict_noid(c) ==
  [id |-> None, name |-> c.name, ip_address |-> c.ip_address,
   password |-> StoredPassword(c.password), state |-> c.state,
   error_message |-> c.error_message]

to_dict(c) ==
  [id |-> c.id, name |-> c.name, ip_address |-> c.ip_address,
   password |-> StoredPassword(c.password), state |-> c.state,
   error_message |-> c.error_message]

\* json.dumps of the list of dicts; the stored value is that text.
dumps(ds) == [kind |-> "json", list |-> ds]

\* data.get(key, default) for a key the dict may lack.
Get(v, default) == IF v = NoKey THEN default ELSE v

\* CameraState(state_value) raises ValueError for a value that names no state.
Raises(d) == d.state \notin CameraState

\* CameraInstance.from_dict with n uuids drawn so far: data.get("id") is kept,
\* a dict without id gets a new uuid4 from __init__; a missing name reads "".
\* A stored password that is_encrypted accepts is decrypted, any other is
\* taken as it is; an empty one stays empty.
LoadedPassword_verbatim(password_data) == password_data

LoadedPassword(password_data) ==
  IF password_data = <<>> THEN <<>>
  ELSE IF is_encrypted(password_data) THEN decrypt_password(password_data)
  ELSE password_data

from_dict(d, n) ==
  LET id == IF d.id # None THEN d.id ELSE n + 1
  IN  [cam |-> [id |-> id, name |-> Get(d.name, ""),
                ip_address |-> Get(d.ip_address, ""),
                password |-> LoadedPassword(d.password), state |-> d.state,
                error_message |-> d.error_message, stream_thread |-> NoThread],
       uuids |-> IF d.id # None THEN n ELSE n + 1]

\* except Exception: continue -- the entries still to load after a failing one.
SkipEntry_abort(ds) == <<>>

SkipEntry(ds) == Tail(ds)

\* for data in cameras_data: try from_dict, append; except: continue.  The
\* uuid4 of a failing entry is drawn in __init__ before CameraState raises.
RECURSIVE load_entries(_, _)
load_entries(ds, n) ==
  IF ds = <<>> THEN [cams |-> <<>>, uuids |-> n]
  ELSE LET c == from_dict(Head(ds), n)
       IN  IF Raises(Head(ds))
           THEN load_entries(SkipEntry(ds), c.uuids)
           ELSE LET rest == load_entries(Tail(ds), c.uuids)
                IN  [cams |-> <<c.cam>> \o rest.cams, uuids |-> rest.uuids]

\* ---- CameraManager.save_to_settings -------------------------------------
\* if status != 0: return False, else return True
SaveReturn_always(outcome) == TRUE

SaveReturn(outcome) == outcome = NoError

\* 'cameras' is set, 'selected_camera_id' is set when there is a selection,
\* and the call returns whether status() is NoError after sync(); outcome is
\* that status.  The except branch needs a value json.dumps or setValue
\* rejects, which no camera built by add_camera or from_dict holds.
save_to_settings(cs, sel, outcome) ==
  [settings |-> [settings EXCEPT
                   !.cameras = dumps([i \in 1..Len(cs) |-> to_dict(cs[i])]),
                   !.selected_camera_id = IF sel # None THEN sel ELSE @],
   status |-> outcome,
   ret |-> SaveReturn(outcome)]

Saved(sv) ==
  /\ settings' = sv.settings
  /\ status' = sv.status

\* ---- CameraManager.add_camera -------------------------------------------
Appended_front(s, c) == <<c>> \o s

Appended(s, c) == Append(s, c)

\* return camera.id, whatever save_to_settings returned.
AddReturn_strict(id, saved) == IF saved THEN id ELSE None

AddReturn(id, saved) == id

\* config.get('password', '') is the password of the new camera.
add_camera_with(name, ip_address, password, outcome) ==
  /\ IF ~Valid(name, ip_address)
     THEN /\ result' = Result("add", None)
          /\ signals' = <<>>
          /\ UNCHANGED <<cameras, settings, status, uuids>>
     ELSE /\ uuids < MaxCameras
          /\ LET id == uuids + 1
                 cs == Appended(cameras, [id |-> id, name |-> name,
                                          ip_address |-> ip_address,
                                          password |-> password,
                                          state |-> STOPPED,
                                          error_message |-> "",
                                          stream_thread |-> NoThread])
                 sv == save_to_settings(cs, selected_camera_id, outcome)
             IN  /\ cameras' = cs
                 /\ uuids' = id
                 /\ Saved(sv)
                 /\ signals' = <<Signal("camera_added", id)>>
                 /\ result' = Result("add", AddReturn(id, sv.ret))
  /\ UNCHANGED <<selected_camera_id, svars>>

\* a config that holds no 'password' key
add_camera(name, ip_address, outcome) ==
  add_camera_with(name, ip_address, <<>>, outcome)

\* ---- CameraManager.remove_camera ----------------------------------------
\* The removed camera's stream is stopped first when its thread is running
\* (stop_stream above); the registry part follows.
SelectionAfterRemove_always(sel, id) == None

SelectionAfterRemove(sel, id) == IF sel = id THEN None ELSE sel

remove_camera(id, outcome) ==
  /\ IF get_camera(cameras, id) = 0
     THEN /\ result' = Result("remove", FALSE)
          /\ signals' = <<>>
          /\ UNCHANGED <<cameras, selected_camera_id, settings, status>>
     ELSE LET cs == Without(cameras, id)
              sel == SelectionAfterRemove(selected_camera_id, id)
              sv == save_to_settings(cs, sel, outcome)
          IN  /\ cameras' = cs
              /\ selected_camera_id' = sel
              /\ Saved(sv)
              /\ signals' = <<Signal("camera_removed", id)>>
              /\ result' = Result("remove", TRUE)
  /\ UNCHANGED <<uuids, svars>>

\* ---- CameraManager.reorder_cameras --------------------------------------
Clamp_nomax(new_index, n) == IF new_index > n THEN n ELSE new_index

\* max(0, min(new_index, len(self.cameras)))
Clamp(new_index, n) ==
  IF new_index > n THEN n ELSE IF new_index < 0 THEN 0 ELSE new_index

reorder_cameras(id, new_index, outcome) ==
  /\ IF get_camera(cameras, id) = 0
     THEN /\ result' = Result("reorder", FALSE)
          /\ signals' = <<>>
          /\ UNCHANGED <<cameras, settings, status>>
     ELSE LET camera == cameras[get_camera(cameras, id)]
              rest == Without(cameras, id)
              cs == PyInsert(rest, Clamp(new_index, Len(rest)), camera)
              sv == save_to_settings(cs, selected_camera_id, outcome)
          IN  /\ result' = Result("reorder", TRUE)
              /\ signals' = <<Signal("cameras_reordered", None)>>
              /\ cameras' = cs
              /\ Saved(sv)
  /\ UNCHANGED <<selected_camera_id, uuids, svars>>

\* ---- CameraManager.select_camera / get_selected_camera ------------------
\* camera = self.get_camera(camera_id); if not camera: return False
CanSelect_any(id) == TRUE

CanSelect(id) == get_camera(cameras, id) # 0

select_camera(id) ==
  /\ IF ~CanSelect(id)
     THEN /\ result' = Result("select", FALSE)
          /\ signals' = <<>>
          /\ UNCHANGED selected_camera_id
     ELSE /\ selected_camera_id' = id
          /\ signals' = <<Signal("selection_changed", id)>>
          /\ result' = Result("select", TRUE)
  /\ UNCHANGED <<cameras, settings, status, uuids, svars>>

\* The id of the camera get_selected_camera returns, None when it returns None.
get_selected_camera(cs, sel) ==
  IF sel # None /\ get_camera(cs, sel) # 0 THEN sel ELSE None

\* ---- a direct save_to_settings call (closeEvent, the tests) -------------
save(outcome) ==
  /\ LET sv == save_to_settings(cameras, selected_camera_id, outcome)
     IN  /\ Saved(sv)
         /\ result' = Result("save", sv.ret)
  /\ signals' = <<>>
  /\ UNCHANGED <<cameras, selected_camera_id, uuids, svars>>

\* ---- CameraManager.load_from_settings -----------------------------------
\* The stored 'cameras' value is one of: no key ("absent"), the empty text
\* ("empty"), text json.loads rejects ("garbage"), JSON text of something
\* that is no list ("notlist"), JSON text of a list of dicts ("json").
\* settings.value('cameras', '[]', type=str), then None or '' become '[]'.
value_cameras(st) ==
  IF st.cameras.kind \in {"absent", "empty"} THEN dumps(<<>>) ELSE st.cameras

\* json.loads raises JSONDecodeError on text that is no JSON.
Parses_any(text) == TRUE

Parses(text) == text.kind # "garbage"

\* isinstance(cameras_data, list) on what json.loads returned.
IsList(text) == text.kind # "notlist"

\* A nonzero status() empties the registry.  Unparseable text and a parsed
\* value that is no list empty it as well, and all three return False.  A
\* list has every entry go through from_dict, the failing ones skipped.  A
\* missing 'selected_camera_id' reads as no selection.  The call is taken
\* while the uuids it draws stay within MaxCameras.
Loaded ==
  /\ LET text == value_cameras(settings)
     IN  IF status # NoError \/ ~Parses(text) \/ ~IsList(text)
         THEN /\ cameras' = <<>>
              /\ selected_camera_id' = None
              /\ result' = Result("load", FALSE)
              /\ UNCHANGED uuids
         ELSE LET ld == load_entries(text.list, uuids)
              IN  /\ ld.uuids <= MaxCameras
                  /\ cameras' = ld.cams
                  /\ uuids' = ld.uuids
                  /\ selected_camera_id' = settings.selected_camera_id
                  /\ result' = Result("load", TRUE)
  /\ signals' = <<>>
  /\ UNCHANGED <<settings, status>>

\* the call on a registry whose records own no worker
load_from_settings == Loaded /\ UNCHANGED svars

RegistryNext ==
  \/ \E name \in Names, ip_address \in Hosts, outcome \in SaveOutcomes :
       add_camera(name, ip_address, outcome)
  \/ \E id \in CameraIds, outcome \in SaveOutcomes : remove_camera(id, outcome)
  \/ \E id \in CameraIds, new_index \in Indexes, outcome \in SaveOutcomes :
       reorder_cameras(id, new_index, outcome)
  \/ \E id \in CameraIds : select_camera(id)
  \/ \E outcome \in SaveOutcomes : save(outcome)
  \/ load_from_settings

RegistrySpec == Init /\ [][RegistryNext]_vars

\* ---- load_from_settings over a store written by earlier sessions --------
\* The store holds any of the five kinds of 'cameras' value; a list holds up
\* to MaxEntries dicts, each with or without id and name and with a state
\* text that names a CameraState or does not.  Stored ids are uuid4 values of
\* earlier sessions, distinct from the ones this session draws.
StoredIds == {MaxCameras + 1, MaxCameras + 2}
StoredEntries ==
  [id : {None} \cup StoredIds, name : {NoKey, "Camera"},
   ip_address : {"192.168.1.100"}, password : {<<>>},
   state : {STOPPED, "bogus"}, error_message : {""}]
StoredLists == UNION {[1..n -> StoredEntries] : n \in 0..MaxEntries}
StoredValues ==
  {[kind |-> k, list |-> <<>>] : k \in {"absent", "empty", "garbage", "notlist"}}
    \cup {dumps(ds) : ds \in StoredLists}

LoadInit ==
  /\ StreamInit
  /\ ManagerInit
  /\ settings \in [cameras : StoredValues,
                    selected_camera_id : {None} \cup StoredIds,
                    legacy : {NoLegacy}]
  /\ status \in SaveOutcomes
  /\ uuids = 0
  /\ CodecInit

LoadNext == load_from_settings

LoadSpec == LoadInit /\ [][LoadNext]_vars

\* ---- the edit branch of show_camera_form -------------------------------
\* The fields of the camera are assigned in place, save_to_settings is called
\* (a failure only shows a warning) and camera_updated is emitted.  Nothing
\* happens for an id get_camera does not find.
edit_camera(id, password, outcome) ==
  /\ IF get_camera(cameras, id) = 0
     THEN /\ signals' = <<>>
          /\ UNCHANGED <<cameras, settings, status>>
     ELSE LET i == get_camera(cameras, id)
              cs == [cameras EXCEPT ![i].password = password]
              sv == save_to_settings(cs, selected_camera_id, outcome)
          IN  /\ cameras' = cs
              /\ Saved(sv)
              /\ signals' = <<Signal("camera_updated", id)>>
  /\ result' = Result("edit", None)
  /\ UNCHANGED <<selected_camera_id, uuids, svars>>

\* ---- migrate_settings --------------------------------------------------
old_keys_nopassword ==
  {"protocol", "user", "ip", "port", "stream_path", "video_resolution"}

old_keys ==
  {"protocol", "user", "password", "ip", "port", "stream_path",
   "video_resolution"}

\* settings.contains(key)
contains(st, key) ==
  IF key = "cameras" THEN st.cameras.kind # "absent"
  ELSE key \in st.legacy.keys

\* settings.value('password', '') and settings.value('ip', '')
value_password(st) == IF contains(st, "password") THEN st.legacy.password ELSE <<>>
value_ip(st) == IF contains(st, "ip") THEN st.legacy.ip ELSE ""

\* if settings.contains('ip') and not settings.contains('cameras')
Detected_legacyonly(st) == contains(st, "ip")

Detected(st) == contains(st, "ip") /\ ~contains(st, "cameras")

\* settings.remove(key) for every key of ks the store holds
Removed(legacy, ks) ==
  [keys |-> legacy.keys \ ks,
   password |-> IF "password" \in ks THEN <<>> ELSE legacy.password,
   ip |-> IF "ip" \in ks THEN "" ELSE legacy.ip]

\* One camera dict is built from the flat values, its password encrypted;
\* it is written as the whole 'cameras' list, its id as 'selected_camera_id',
\* and the flat keys are removed.  There is no sync() and no return value.
migrate_settings ==
  /\ IF Detected(settings)
     THEN /\ uuids < MaxCameras
          /\ LET migrated_camera ==
                   [id |-> uuids + 1, name |-> "Camera 1",
                    ip_address |-> value_ip(settings),
                    password |-> encrypt_password(value_password(settings)),
                    state |-> STOPPED, error_message |-> ""]
             IN  settings' = [cameras |-> dumps(<<migrated_camera>>),
                              selected_camera_id |-> migrated_camera.id,
                              legacy |-> Removed(settings.legacy, old_keys)]
          /\ uuids' = uuids + 1
     ELSE UNCHANGED <<settings, uuids>>
  /\ result' = Result("migrate", None)
  /\ signals' = <<>>
  /\ UNCHANGED <<cameras, selected_camera_id, status, svars>>

\* ---- cameras with passwords over a store that may hold the flat keys ----
\* Passwords: none, 'a', and an unpaired surrogate (which utf-8 refuses).
\* The store starts without 'cameras' and holds no flat key, all of them,
\* 'ip' alone, or 'user' and 'password' without 'ip'.
Secrets == {<<>>, <<97>>, <<56448>>}
\* the keys save_app_settings writes
FlatKeys ==
  {"protocol", "user", "password", "ip", "port", "stream_path",
   "video_resolution"}
LegacyKeySets == {{}, FlatKeys, {"ip"}, {"user", "password"}}
LegacyStores ==
  {[keys |-> ks,
    password |-> IF "password" \in ks THEN pw ELSE <<>>,
    ip |-> IF "ip" \in ks THEN "192.168.1.100" ELSE ""] :
     ks \in LegacyKeySets, pw \in Secrets}

add_secret(password, outcome) ==
  /\ uuids < MaxSecrets
  /\ add_camera_with("Camera", "192.168.1.100", password, outcome)

CredentialInit ==
  /\ StreamInit
  /\ ManagerInit
  /\ settings \in [cameras : {NoValue}, selected_camera_id : {None},
                    legacy : LegacyStores]
  /\ status = NoError
  /\ uuids = 0
  /\ CodecInit

CredentialNext ==
  \/ \E password \in Secrets, outcome \in SaveOutcomes :
       add_secret(password, outcome)
  \/ \E id \in CameraIds, password \in Secrets, outcome \in SaveOutcomes :
       edit_camera(id, password, outcome)
  \/ \E id \in CameraIds, outcome \in SaveOutcomes : remove_camera(id, outcome)
  \/ \E id \in CameraIds, new_index \in Indexes, outcome \in SaveOutcomes :
       reorder_cameras(id, new_index, outcome)
  \/ \E outcome \in SaveOutcomes : save(outcome)
  \/ migrate_settings
  \/ load_from_settings

CredentialSpec == CredentialInit /\ [][CredentialNext]_vars

\* ======================================================================
\* Properties
\* ======================================================================
Count(s, k) == Cardinality({i \in 1..Len(s) : s[i] = k})

LiveWorkers == {w \in Workers : isRunning(w)}

\* C1: a record never has two live worker threads: when start_stream finds
\* a worker, that worker's run() has returned before the new one is started.
C1_SingleLiveWorker == Cardinality(LiveWorkers) <= 1

\* start_stream found a running worker, joined it, and the new one is live.
C1_Witness ==
  /\ lastOp = "restart"
  /\ cpc = "idle"
  /\ stream_thread = 2
  /\ isRunning(2)
  /\ wpc[1] = "finished"

\* C2 (as claimed): the record leaves STARTING for RUNNING or PAUSED only by
\* handling a first_frame event of its current worker, which makes it RUNNING.
C2_RunningOnlyByFirstFrame ==
  [][(state = STARTING /\ state' \in {RUNNING, PAUSED})
       => /\ handle_event
          /\ Head(queue).kind = "first_frame"
          /\ Head(queue).w = stream_thread
          /\ state' = RUNNING]_vars

\* C3: each of the three worker-level failures is emitted as a queued error
\* event with a non-empty message, and handling an error event puts the
\* record in ERROR with that message as error_message.
FailureStep(w) ==
  \/ wpc[w] = "join" /\ wpc'[w] \notin {"join", "loop"}
  \/ wpc[w] = "read" /\ wpc'[w] # "read" /\ frames'[w] = frames[w]

ErrorQueued(w) ==
  /\ Len(queue') = Len(queue) + 1
  /\ queue'[Len(queue')].kind = "error"
  /\ queue'[Len(queue')].w = w
  /\ queue'[Len(queue')].msg \in {TimeoutMsg, OpenFailedMsg, ReadFailedMsg}
  /\ queue'[Len(queue')].msg # ""
  /\ emitted'[w] = Append(emitted[w], "error")

C3_FailuresBecomeErrors ==
  [][/\ \A w \in Workers : FailureStep(w) => ErrorQueued(w)
     /\ (handle_event /\ Head(queue).kind = "error")
          => (state' = ERROR /\ error_message' = Head(queue).msg)]_vars

\* A read failure has been handled.
C3_Witness ==
  /\ lastOp = "error"
  /\ state = ERROR
  /\ error_message = ReadFailedMsg

\* C4 (as claimed): between handlers, the record references a worker only
\* while its state is STARTING, RUNNING or PAUSED.
C4_WorkerOnlyWhileActive ==
  (cpc = "idle" /\ stream_thread # NoThread) => state \in {STARTING, RUNNING, PAUSED}

\* C5: whenever stop_stream returns the record is STOPPED with no worker and
\* an empty error_message; on a STOPPED record without worker it changes
\* nothing of the record, the workers or the queue.
StopReturns == stop_stream_joined \/ (stop_stream /\ cpc' = "idle")

C5_StopAlwaysStops ==
  [][/\ StopReturns
          => (state' = STOPPED /\ stream_thread' = NoThread /\ error_message' = "")
     /\ (stop_stream /\ state = STOPPED /\ stream_thread = NoThread)
          => UNCHANGED <<rvars, wvars, queue, cpc, created>>]_vars

\* stop_stream returned on a record whose worker had died on its own (its
\* handle was never released) and whose frames were still queued.
C5_Witness ==
  /\ lastOp = "stop"
  /\ state = STOPPED
  /\ error_message = ""
  /\ stream_thread = NoThread
  /\ wpc[1] = "finished"
  /\ handle[1] = "open"
  /\ \E i \in 1..Len(queue) : queue[i].w = 1

\* C6: pause_stream(b) leaves state, error_message and stream_thread alone
\* when there is no worker or its thread is not running; otherwise the state
\* becomes PAUSED for b = true and RUNNING for b = false.
C6_PauseToggles ==
  [][\A b \in BOOLEAN : pause_stream(b) =>
       IF stream_thread = NoThread \/ ~isRunning(stream_thread)
       THEN UNCHANGED rvars
       ELSE /\ state' = (IF b THEN PAUSED ELSE RUNNING)
            /\ UNCHANGED <<error_message, stream_thread>>]_vars

\* pause_stream(false) has just resumed a live worker.
C6_Witness ==
  /\ lastOp = "pause_false"
  /\ state = RUNNING
  /\ stream_thread # NoThread
  /\ isRunning(stream_thread)
  /\ ~stream_is_paused[stream_thread]

\* C7 (as claimed): once pause(true) has returned on a RUNNING record, the
\* consumer handles no frame event until pause(false).
C7_NoFrameWhilePaused == ~(pauseWindow /\ lastOp = "frame")

\* C7 (amended): once pause(true) has returned on a RUNNING record, the
\* worker emits at most one more frame until pause(false).
C7_AtMostOneFrameAfterPause == pauseWindow => sincePause <= 1

\* The worker was past its pause check and emitted its frame after the pause.
C7_Witness ==
  /\ pauseWindow
  /\ sincePause = 1
  /\ state = PAUSED

\* C8 (as claimed): status*, then either first_frame followed by frames only,
\* or one terminal error.
OrderAsClaimed(s) ==
  \A j \in 1..Len(s) :
    /\ s[j] \in {"status", "first_frame", "error"}
         => \A i \in 1..(j - 1) : s[i] = "status"
    /\ s[j] = "frame"
         => /\ \A i \in 1..(j - 1) : s[i] \in {"status", "first_frame", "frame"}
            /\ \E i \in 1..(j - 1) : s[i] = "first_frame"

C8_EventOrder == \A w \in Workers : OrderAsClaimed(emitted[w])

\* C8 (amended): a frame precedes every first_frame, and after an error
\* event a worker emits nothing but status events.
OrderAmended(s) ==
  \A j \in 1..Len(s) :
    /\ s[j] = "first_frame" => \E i \in 1..(j - 1) : s[i] = "frame"
    /\ s[j] # "status" => \A i \in 1..(j - 1) : s[i] # "error"

C8_EventOrderAmended == \A w \in Workers : OrderAmended(emitted[w])

\* A worker streamed and then failed on a read.
C8_Witness ==
  \E w \in Workers : \E i, j \in 1..Len(emitted[w]) :
    /\ i < j
    /\ emitted[w][i] = "first_frame"
    /\ emitted[w][j] = "error"

\* C9 (as claimed): one worker emits first_frame at most once, and exactly
\* once when it has read a frame.
C9_FirstFrameOnce ==
  \A w \in Workers :
    /\ Count(emitted[w], "first_frame") <= 1
    /\ frames[w] >= 1 => Count(emitted[w], "first_frame") = 1

\* C10: a handle is released only when its worker's loop can no longer run,
\* and a worker about to read holds an open handle.
C10_NoReadAfterRelease ==
  \A w \in Workers :
    /\ handle[w] = "released" => wpc[w] = "finished"
    /\ wpc[w] \in {"loop", "read"} => (cap[w] = "set" /\ handle[w] = "open")

\* stop_stream signalled a streaming worker, joined it and released its handle.
C10_Witness ==
  /\ lastOp = "stop"
  /\ cpc = "idle"
  /\ handle[1] = "released"
  /\ released[1] = 1
  /\ \E i \in 1..Len(queue) : queue[i] = Ev(1, "frame", "")

\* C11: by the time stop() has returned, every capture handle a worker opened
\* has been released, and released once; this includes a worker whose loop
\* ended by itself on a read failure before stop() was called.  Workers that
\* gave up on a connect timeout are left out, their handle belongs to the
\* abandoned helper.
C11_ReleasedOnce ==
  (cpc = "idle" /\ lastOp = "stop") =>
    \A w \in Workers :
      ~timedOut[w] => (handle[w] # "open" /\ released[w] <= 1)

\* C12: a worker whose connect helper had not completed at the timeout emits
\* exactly one error and never a frame or first_frame, and its run() returns
\* even if the abandoned connect call never does.  A worker that timed out
\* stays timed out and a run() that returned stays returned, so "every worker
\* that timed out eventually returns" is "from some point on every worker
\* that timed out has returned".
TimeoutSignals(w) ==
  /\ Count(emitted[w], "frame") = 0
  /\ Count(emitted[w], "first_frame") = 0
  /\ Count(emitted[w], "error") <= 1
  /\ stream_thread = w => Count(emitted[w], "error") = 1

C12_TimeoutEndsWorker ==
  /\ [](\A w \in Workers : timedOut[w] => TimeoutSignals(w))
  /\ <>[](\A w \in Workers : timedOut[w] => wpc[w] = "finished")

\* The worker timed out and its run() has returned while the helper is still
\* inside the connect call.
C12_Witness ==
  /\ timedOut[1]
  /\ stream_thread = 1
  /\ wpc[1] = "finished"
  /\ hpc[1] = "connecting"
  /\ Count(emitted[1], "error") = 1

\* C13: retry on a record in ERROR leaves the record as start() on a record
\* in ERROR does: state STARTING, last_error empty, one new worker owned by
\* the record and running, every earlier worker stopped before it was created.
RetryReturns ==
  \/ handle_camera_retry /\ cpc' # "retry_wait"
  \/ handle_camera_retry_joined

StartReturns ==
  \/ start_stream /\ cpc' # "start_wait"
  \/ start_stream_joined

FreshlyStarted ==
  /\ state' = STARTING
  /\ error_message' = ""
  /\ created' = created + 1
  /\ stream_thread' = created'
  /\ wpc'[stream_thread'] = "join"
  /\ \A w \in Workers \ {stream_thread'} : wpc[w] \in {"new", "finished"}

C13_RetryIsClearThenStart ==
  [][(state = ERROR /\ (RetryReturns \/ StartReturns)) => FreshlyStarted]_vars

\* retry found the record in ERROR; the earlier worker has stopped with its
\* handle released, and the new worker is the only live one.
C13_Witness ==
  /\ lastOp = "retry"
  /\ cpc = "start_reset"
  /\ state = STARTING
  /\ error_message = ""
  /\ stream_thread = 2
  /\ wpc[1] = "finished"
  /\ released[1] = 1
  /\ wpc[2] = "join"

\* C14: last_error is empty whenever the record's state is not ERROR.
C14_ErrorMessageOnlyInError == state # ERROR => error_message = ""

\* ---- CameraManager ------------------------------------------------------
\* C15: add_camera with a name and an ip_address returns an id no other
\* camera of the registry has, the registry grows by one, the new camera is
\* last and the cameras that were there keep their order.
C15_AddAppends ==
  [][\A name \in Names, ip_address \in Hosts, outcome \in SaveOutcomes :
       (Truthy(name) /\ Truthy(ip_address)
          /\ add_camera(name, ip_address, outcome)) =>
         /\ result'.op = "add"
         /\ result'.val # None
         /\ \A i \in 1..Len(cameras) : cameras[i].id # result'.val
         /\ Len(cameras') = Len(cameras) + 1
         /\ cameras'[Len(cameras')].id = result'.val
         /\ SubSeq(cameras', 1, Len(cameras)) = cameras]_vars

\* The third camera was added behind two cameras that had been reordered.
C15_Witness ==
  /\ result = Result("add", 3)
  /\ Ids(cameras) = <<2, 1, 3>>

\* C16: add_camera without a name or without an ip_address (missing or
\* empty) returns no id, leaves the cameras, the selection and the store as
\* they were, and emits no camera_added.
C16_InvalidAddChangesNothing ==
  [][\A name \in Names, ip_address \in Hosts, outcome \in SaveOutcomes :
       (~(Truthy(name) /\ Truthy(ip_address))
          /\ add_camera(name, ip_address, outcome)) =>
         /\ result' = Result("add", None)
         /\ UNCHANGED <<cameras, selected_camera_id, settings>>
         /\ signals' = <<>>]_vars

\* A rejected add on a registry that holds cameras, a selection and a store.
C16_Witness ==
  /\ result = Result("add", None)
  /\ Len(cameras) = 2
  /\ selected_camera_id = 2
  /\ settings.cameras = dumps(<<to_dict(cameras[1]), to_dict(cameras[2])>>)
  /\ signals = <<>>

\* C17: when save_to_settings fails inside add_camera, add_camera still
\* returns the id, the camera stays in the registry and camera_added is emitted.
C17_AddSurvivesSaveFailure ==
  [][\A name \in Names, ip_address \in Hosts :
       (Truthy(name) /\ Truthy(ip_address)
          /\ add_camera(name, ip_address, AccessError)) =>
         /\ result'.val # None
         /\ get_camera(cameras', result'.val) # 0
         /\ signals' = <<Signal("camera_added", result'.val)>>]_vars

\* An add whose save reported an error status.
C17_Witness ==
  /\ result.op = "add"
  /\ result.val # None
  /\ status = AccessError
  /\ get_camera(cameras, result.val) # 0
  /\ signals = <<Signal("camera_added", result.val)>>

\* C18: after remove_camera of the selected camera get_selected_camera
\* returns None; removing any other camera leaves the selection as it was.
C18_RemoveClearsOwnSelection ==
  [][\A id \in CameraIds, outcome \in SaveOutcomes :
       remove_camera(id, outcome) =>
         IF id = selected_camera_id
         THEN get_selected_camera(cameras', selected_camera_id') = None
         ELSE /\ selected_camera_id' = selected_camera_id
              /\ get_selected_camera(cameras', selected_camera_id')
                   = get_selected_camera(cameras, selected_camera_id)]_vars

\* The selected camera was removed: the store still names it, the registry
\* has no selection, and other cameras remain.
C18_Witness ==
  /\ result = Result("remove", TRUE)
  /\ signals = <<Signal("camera_removed", settings.selected_camera_id)>>
  /\ selected_camera_id = None
  /\ cameras # <<>>

\* C19: reorder_cameras of a known id gives a permutation of the cameras with
\* the moved camera at new_index clamped to 0..len, len being the length
\* without the moved camera, and the other cameras in their old relative
\* order; an unknown id returns False and changes nothing.
C19_ReorderMovesOne ==
  [][\A id \in CameraIds, new_index \in Indexes, outcome \in SaveOutcomes :
       (result'.op = "reorder" /\ reorder_cameras(id, new_index, outcome)) =>
         IF get_camera(cameras, id) # 0
         THEN LET n == Len(Without(cameras, id))
                  at == IF new_index < 0 THEN 0
                        ELSE IF new_index > n THEN n ELSE new_index
              IN  /\ result' = Result("reorder", TRUE)
                  /\ Len(cameras') = Len(cameras)
                  /\ cameras'[at + 1].id = id
                  /\ Without(cameras', id) = Without(cameras, id)
         ELSE /\ result' = Result("reorder", FALSE)
              /\ UNCHANGED <<cameras, selected_camera_id, settings>>]_vars

\* The first of three cameras was moved to the end.
C19_Witness ==
  /\ result = Result("reorder", TRUE)
  /\ Ids(cameras) = <<2, 3, 1>>

\* C20: load_from_settings right after a save_to_settings that returned True
\* gives the registry the same ids in the same order.
C20_SaveLoadKeepsOrder ==
  [][(load_from_settings /\ result = Result("save", TRUE)) =>
       (result' = Result("load", TRUE) /\ Ids(cameras') = Ids(cameras))]_vars

\* Cameras added, one removed, two reordered, saved, and loaded back.
C20_Witness ==
  /\ result = Result("load", TRUE)
  /\ Ids(cameras) = <<3, 1>>
  /\ settings.cameras = dumps(<<to_dict(cameras[1]), to_dict(cameras[2])>>)

\* C21: select_camera of an id the registry does not hold returns False,
\* leaves the selection as it was and emits no selection_changed; of a known
\* id it returns True and get_selected_camera then returns that camera.
C21_SelectKnownOnly ==
  [][\A id \in CameraIds :
       (result'.op = "select" /\ select_camera(id)) =>
         IF get_camera(cameras, id) = 0
         THEN /\ result' = Result("select", FALSE)
              /\ selected_camera_id' = selected_camera_id
              /\ signals' = <<>>
         ELSE /\ result' = Result("select", TRUE)
              /\ get_selected_camera(cameras', selected_camera_id') = id]_vars

\* An unknown id was refused while another camera was selected.
C21_Witness ==
  /\ result = Result("select", FALSE)
  /\ signals = <<>>
  /\ selected_camera_id = 2
  /\ get_selected_camera(cameras, selected_camera_id) = 2

NoCollection(kind) == kind \in {"absent", "empty", "garbage", "notlist"}

C23_LoadFailsOpen ==
  [][load_from_settings =>
       /\ result'.op = "load" /\ result'.val \in BOOLEAN
       /\ NoCollection(settings.cameras.kind) => cameras' = <<>>
       /\ settings.cameras.kind = "garbage" => result'.val = FALSE]_vars

\* load_from_settings has returned False over unparseable text that a
\* healthy store holds.
C23_Witness ==
  /\ result = Result("load", FALSE)
  /\ settings.cameras.kind = "garbage"
  /\ status = NoError
  /\ cameras = <<>>

\* C24: when the 'cameras' value is a list, the registry afterwards holds,
\* in stored order, one camera for each entry from_dict accepts and none for
\* the others: id (when stored), name and state are the entry's.
WellFormed(d) == d.state \in CameraState

RoundTrips(i) ==
  (/\ calls[i].fn = "encrypt_password"
   /\ calls[i + 1].fn = "decrypt_password"
   /\ calls[i + 1].arg = calls[i].ret) => calls[i + 1].ret = calls[i].arg

EmptyStaysEmpty(c) ==
  (c.fn \in {"encrypt_password", "decrypt_password"} /\ c.arg = <<>>)
    => c.ret = <<>>

Deterministic(c, d) ==
  (c.fn = "encrypt_password" /\ d.fn = "encrypt_password" /\ c.arg = d.arg)
    => c.ret = d.ret

C27_RoundTripEveryPassword ==
  /\ \A i \in 1..(Len(calls) - 1) : RoundTrips(i)
  /\ \A i \in 1..Len(calls) : EmptyStaysEmpty(calls[i])
  /\ \A i, j \in 1..Len(calls) : Deterministic(calls[i], calls[j])

\* C27 amended: the same for every password that holds no unpaired
\* surrogate; for a password that holds one, encrypt_password returns ''.
Encodable(p) == \A i \in 1..Len(p) : ~IsSurrogate(p[i])

C27_RoundTripEncodable ==
  /\ \A i \in 1..(Len(calls) - 1) : Encodable(calls[i].arg) => RoundTrips(i)
  /\ \A i \in 1..Len(calls) : EmptyStaysEmpty(calls[i])
  /\ \A i, j \in 1..Len(calls) : Deterministic(calls[i], calls[j])
  /\ \A i \in 1..Len(calls) :
       (calls[i].fn = "encrypt_password" /\ ~Encodable(calls[i].arg))
         => calls[i].ret = <<>>

\* The password of e-acute and the euro sign went through encrypt_password
\* and came back from decrypt_password.
C27_Witness ==
  /\ Len(calls) = 2
  /\ calls[1] = Call("encrypt_password", <<233, 8364>>, calls[1].ret)
  /\ calls[1].ret # <<>>
  /\ calls[2] = Call("decrypt_password", calls[1].ret, <<233, 8364>>)

\* C28: decrypt_password returns '' for every token that is empty or that
\* encrypt_password returns for no password.  A token t is returned for some
\* password exactly when it is returned for decrypt_password(t).
ValidOutput(t) == t # <<>> /\ encrypt_password(decrypt_password(t)) = t

C28_DecodeRejectsForeignTokens ==
  \A i \in 1..Len(calls) :
    (calls[i].fn = "decrypt_password" /\ ~ValidOutput(calls[i].arg))
      => calls[i].ret = <<>>

\* C25 as stated: when the store holds every flat key and no 'cameras' key,
\* migrate_settings leaves a 'cameras' list of one camera built from the flat
\* values, whose stored password decrypts to the flat password; its id is
\* 'selected_camera_id'; no flat key is left.
LegacyStore(st) == FlatKeys \subseteq st.legacy.keys /\ ~contains(st, "cameras")

MigratedOne(st, new) ==
  /\ new.cameras.kind = "json"
  /\ Len(new.cameras.list) = 1
  /\ new.cameras.list[1].id # None
  /\ new.cameras.list[1].ip_address = st.legacy.ip
  /\ new.selected_camera_id = new.cameras.list[1].id
  /\ \A k \in FlatKeys : ~contains(new, k)

C26_MigrateIdempotent ==
  [][(migrate_settings /\ (contains(settings, "cameras") \/ result.op = "migrate"))
       => settings' = settings /\ uuids' = uuids]_vars

\* migrate_settings has returned on a store that holds 'cameras' and still
\* holds the flat key 'ip'.
C26_Witness ==
  /\ result = Result("migrate", None)
  /\ contains(settings, "cameras")
  /\ contains(settings, "ip")

\* C29 as stated: from_dict(to_dict(camera)) has the camera's password,
\* whatever it is, and is_encrypted accepts the stored form of every
\* non-empty password.
PasswordRoundTrips(c) ==
  /\ from_dict(to_dict(c), uuids).cam.password = c.password
  /\ c.password # <<>> => is_encrypted(to_dict(c).password)

C29_RecordPasswordRoundTrip ==
  \A i \in 1..Len(cameras) : PasswordRoundTrips(cameras[i])

\* C29 amended: the same for every camera whose password holds no unpaired
\* surrogate; the stored form of any other password is '' and loads as ''.
C29_RecordPasswordEncodable ==
  \A i \in 1..Len(cameras) :
    IF Encodable(cameras[i].password) THEN PasswordRoundTrips(cameras[i])
    ELSE /\ to_dict(cameras[i]).password = <<>>
         /\ from_dict(to_dict(cameras[i]), uuids).cam.password = <<>>

\* A camera with password 'a' was saved and loaded back: the store holds the
\* token and the registry the password.
C29_Witness ==
  /\ result = Result("load", TRUE)
  /\ Len(cameras) = 1
  /\ cameras[1].password = <<97>>
  /\ settings.cameras.kind = "json"
  /\ Len(settings.cameras.list) = 1
  /\ settings.cameras.list[1].password = encrypt_password(<<97>>)
  /\ settings.cameras.list[1].password # <<97>>

\* C30: in every state add, edit, remove, reorder, save, migrate and load
\* reach, each stored camera has as its stored password what
\* encrypt_password returns for the camera's password in the registry, and
\* that differs from a non-empty password.  A stored camera the registry
\* does not hold (the one migrate_settings wrote, until it is loaded) is
\* compared with the password it is loaded with.
StoredList(st) == IF st.cameras.kind = "json" THEN st.cameras.list ELSE <<>>

Encoded(stored, plain) ==
  /\ stored = encrypt_password(plain)
  /\ plain # <<>> => stored # plain

OnlyStatusAdded(old, new) ==
  new = old \/ new = Append(old, "status") \/ new = <<>>

C33_ReadFailureEndsLoop ==
  [][\A w \in Workers :
       /\ run_read(w, FALSE) =>
            /\ Count(emitted'[w], "error") = 1
            /\ emitted'[w][Len(emitted'[w])] = "error"
            /\ wpc'[w] = "finished"
       /\ wpc[w] = "finished" =>
            /\ wpc'[w] = "finished"
            /\ frames'[w] \in {frames[w], 0}
            /\ OnlyStatusAdded(emitted[w], emitted'[w])]_vars

\* A worker delivered a frame, then a read failed: its error is emitted and
\* its run() has returned.
C33_Witness ==
  \E w \in Workers :
    /\ wpc[w] = "finished"
    /\ frames[w] >= 1
    /\ Count(emitted[w], "error") = 1
    /\ Count(emitted[w], "frame") >= 1
    /\ emitted[w][Len(emitted[w])] = "error"

\* C34: whenever stop_stream has called stop_streaming on a running worker
\* and waits for it, run() of that worker returns and stop_stream returns,
\* whether the worker was waiting for the connect helper, paused, reading,
\* or inside its own stop_streaming after a timeout or a failed open.
StopWaits == cpc = "stop_wait"

\* stop_stream leaves its wait only by stop_stream_joined, that is after
\* run() has returned; "every wait ends" is "again and again it is not waiting".
C34_StopTerminates == []<>(~StopWaits)

\* stop_stream waits for a worker that timed out and is inside its own
\* stop_streaming call.
C34_Witness ==
  /\ StopWaits
  /\ ~stream_is_running[stream_thread]
  /\ wpc[stream_thread] = "stopping"
  /\ timedOut[stream_thread]

\* ---- C37 ------------------------------------------------------------------
\* C37: an event of a worker that was stopped or replaced never changes the
\* record: whenever the consumer's handling of a queued first_frame or error
\* event changes state, the event was emitted by the worker the record
\* references at that moment (after stop() there is none, so the state stays
\* STOPPED until the next start()).
C37_StaleEventsIgnored ==
  [][(handle_event /\ state' # state) =>
       /\ stream_thread # NoThread
       /\ Head(queue).w = stream_thread]_vars

\* ---- C38 ------------------------------------------------------------------
\* C38: while the record has a live worker (its thread is running) and no
\* command is in progress, state is PAUSED exactly when that worker's paused
\* flag is set.
C38_PausedIffFlag ==
  (cpc = "idle" /\ stream_thread # NoThread /\ isRunning(stream_thread)) =>
    (state = PAUSED <=> stream_is_paused[stream_thread])

\* ---- C39 ------------------------------------------------------------------
\* C39: the selection round-trips through the store and never dangles.  The
\* store changes only in a save, and a load reads the store, so the claim is
\* stated on the two steps: every step that saves leaves in the store the
\* selection the registry holds at that save (none when there is none), and
\* every successful load yields the stored selection, which is none or the
\* id of a record it loaded.
SavingStep ==
  \/ result'.op = "save"
  \/ result'.op = "add" /\ result'.val # None
  \/ result'.op \in {"remove", "reorder"} /\ result'.val = TRUE

C39_SelectionRoundTrips ==
  [][/\ SavingStep => settings'.selected_camera_id = selected_camera_id'
     /\ (result'.op = "load" /\ result'.val = TRUE) =>
          /\ selected_camera_id' = settings.selected_camera_id
          /\ \/ selected_camera_id' = None
             \/ get_camera(cameras', selected_camera_id') # 0]_vars

\* ---- C40 ------------------------------------------------------------------
\* A store written before passwords were encoded: one entry whose 'password'
\* is the text the user typed.
LegacyEntries ==
  {[id |-> MaxCameras + 1, name |-> "Camera", ip_address |-> "192.168.1.100",
    password |-> p, state |-> STOPPED, error_message |-> ""] :
     p \in Passwords \cup Tokens}

PlaintextInit ==
  /\ StreamInit
  /\ ManagerInit
  /\ settings \in [cameras : {dumps(<<d>>) : d \in LegacyEntries},
                    selected_camera_id : {None}, legacy : {NoLegacy}]
  /\ status = NoError
  /\ uuids = 0
  /\ CodecInit

PlaintextSpec == PlaintextInit /\ [][LoadNext]_vars

\* p is no text encrypt_password returns: it was stored unencoded.
Unencoded(p) == encrypt_password(decrypt_password(p)) # p

\* C40: a non-empty legacy plaintext password p that was stored unencoded is
\* loaded verbatim: after load() the record's password is p.
C40_LegacyPlaintextKept ==
  (result.op = "load" /\ result.val = TRUE) =>
    \A i \in 1..Len(cameras) :
      LET p == settings.cameras.list[i].password
      IN  (p # <<>> /\ Unencoded(p)) => cameras[i].password = p

\* ======================================================================
\* Several records in one registry, each with its own worker
\* ======================================================================
\* The records are the entries of cameras, each with its state,
\* error_message and stream_thread.  A worker's run() is followed as far as
\* a record can see it: connected, first frame, the one error it ends with.
\* The consumer's calls into a worker (stop_streaming with its wait(),
\* pause_streaming) are taken as one step with the command that makes them.
Index(id) == get_camera(cameras, id)

\* wait() has returned for the workers in ws: their run() is over.
Halted(ws) == [w \in Workers |-> IF w \in ws THEN "finished" ELSE wpc[w]]

NotRunning(ws) ==
  [w \in Workers |-> IF w \in ws THEN FALSE ELSE stream_is_running[w]]

\* A StreamThread no record references any more is garbage once its run()
\* has returned: its flags go back to their constructor values.
Dropped(f, ws) == [w \in Workers |-> IF w \in ws THEN FALSE ELSE f[w]]

\* ... and with its signals disconnected nothing refers to its camera id.
Unbound(ws) == [w \in Workers |-> IF w \in ws THEN None ELSE camera_id[w]]

\* what no step of this part touches
idle == <<state, error_message, stream_thread, hpc, cap, handle, released,
          frames, emitted, lastOp, pauseWindow, sincePause, timedOut, cvars>>

\* one more start/stop/pause command of the consumer
Command ==
  /\ ops < MaxCommands
  /\ ops' = ops + 1

\* ---- StreamThread.run as the records see it -----------------------------
\* the connect helper returned in time with an open capture
thread_connected(w) ==
  /\ wpc[w] = "join"
  /\ wpc' = [wpc EXCEPT ![w] = "loop"]
  /\ UNCHANGED <<queue, stream_is_running, stream_is_paused,
                 first_frame_was_received, created, camera_id, cameras,
                 selected_camera_id, settings, status, signals, result, uuids>>
  /\ UNCHANGED <<cpc, ops, idle>>

\* a read returned the first frame: first_frame_received.emit(camera_id)
thread_first_frame(w) ==
  /\ wpc[w] = "loop"
  /\ stream_is_running[w]
  /\ ~stream_is_paused[w]
  /\ ~first_frame_was_received[w]
  /\ first_frame_was_received' = [first_frame_was_received EXCEPT ![w] = TRUE]
  /\ queue' = Append(queue, Ev(w, "first_frame", ""))
  /\ UNCHANGED <<wpc, stream_is_running, stream_is_paused, created, camera_id,
                 cameras, selected_camera_id, settings, status, signals, result,
                 uuids>>
  /\ UNCHANGED <<cpc, ops, idle>>

\* error_signal.emit(camera_id, text) and run() returns: the connect timed
\* out or failed (the worker's own stop_streaming clears the running flag),
\* or a read failed (break).
ErrorText(w) ==
  IF wpc[w] = "join" THEN TimeoutMsg ELSE ReadFailedMsg

thread_error(w) ==
  /\ wpc[w] \in {"join", "loop"}
  /\ wpc[w] = "loop" => (stream_is_running[w] /\ ~stream_is_paused[w])
  /\ queue' = Append(queue, Ev(w, "error", ErrorText(w)))
  /\ wpc' = [wpc EXCEPT ![w] = "finished"]
  /\ stream_is_running' =
       IF wpc[w] = "join" THEN NotRunning({w}) ELSE stream_is_running
  /\ UNCHANGED <<stream_is_paused, first_frame_was_received, created,
                 camera_id, cameras, selected_camera_id, settings, status,
                 signals, result, uuids>>
  /\ UNCHANGED <<cpc, ops, idle>>

\* ---- CameraInstance.start_stream on the record with that id -------------
\* A running previous worker is stopped, a previous worker is dropped with
\* its signals still connected; the new one is built with the record's id.
camera_start_stream(id) ==
  /\ Command
  /\ cpc = "idle"
  /\ Index(id) # 0
  /\ created < MaxWorkers
  /\ LET i == Index(id)
         old == cameras[i].stream_thread
         new == created + 1
         ws == IF MustStop(old) THEN {old} ELSE {}
     IN  /\ wpc' = [Halted(ws) EXCEPT ![new] = "join"]
         /\ stream_is_running' = [NotRunning({old}) EXCEPT ![new] = TRUE]
         /\ stream_is_paused' = Dropped(stream_is_paused, {old, new})
         /\ first_frame_was_received' =
              Dropped(first_frame_was_received, {old, new})
         /\ camera_id' = [camera_id EXCEPT ![new] = id]
         /\ created' = new
         /\ cameras' = [cameras EXCEPT ![i] =
                          [@ EXCEPT !.state = StartState,
                                    !.error_message = "",
                                    !.stream_thread = new]]
  /\ UNCHANGED <<queue, selected_camera_id, settings, status, signals, result,
                 uuids>>
  /\ UNCHANGED <<cpc, idle>>

\* ---- CameraInstance.stop_stream on the record with that id --------------
\* What stop_stream makes of one record and of the calls queued for it.
StoppedRecord(c) ==
  [c EXCEPT !.state = StopState, !.error_message = "",
            !.stream_thread = NoThread]

camera_stop_stream(id) ==
  /\ Command
  /\ cpc = "idle"
  /\ Index(id) # 0
  /\ LET i == Index(id)
         old == cameras[i].stream_thread
         ws == IF old # NoThread /\ isRunning(old) THEN {old} ELSE {}
     IN  /\ wpc' = Halted(ws)
         /\ stream_is_running' = NotRunning({old})
         /\ stream_is_paused' = Dropped(stream_is_paused, {old})
         /\ first_frame_was_received' = Dropped(first_frame_was_received, {old})
         /\ camera_id' = Unbound({old})
         /\ queue' = IF old = NoThread THEN queue ELSE Disconnected(old, queue)
         /\ cameras' = [cameras EXCEPT ![i] = StoppedRecord(@)]
  /\ UNCHANGED <<created, selected_camera_id, settings, status, signals,
                 result, uuids>>
  /\ UNCHANGED <<cpc, idle>>

\* ---- CameraInstance.pause_stream on the record with that id -------------
camera_pause_stream(id, paused) ==
  /\ Command
  /\ cpc = "idle"
  /\ Index(id) # 0
  /\ LET i == Index(id)
         t == cameras[i].stream_thread
     IN  /\ CanPause(t)
         /\ stream_is_paused' = [stream_is_paused EXCEPT ![t] = paused]
         /\ cameras' = [cameras EXCEPT ![i] =
                          [@ EXCEPT !.state = PauseState(paused)]]
  /\ UNCHANGED <<wpc, stream_is_running, first_frame_was_received, created,
                 camera_id, queue, selected_camera_id, settings, status,
                 signals, result, uuids>>
  /\ UNCHANGED <<cpc, idle>>

\* ---- the event loop: one queued slot call -------------------------------
\* The two slots of a worker are bound methods of the record it was built
\* for; 0 when that record is no longer in the registry.
Target_first(e) == IF cameras = <<>> THEN 0 ELSE 1

Target(e) == Index(camera_id[e.w])

camera_handle_event ==
  /\ cpc = "idle"
  /\ queue # <<>>
  /\ LET e == Head(queue)
         i == Target(e)
         r == IF e.kind = "first_frame" THEN on_first_frame_received
              ELSE on_error(e.msg)
     IN  cameras' = IF i = 0 THEN cameras
                    ELSE [cameras EXCEPT ![i] =
                            [@ EXCEPT !.state = r.state,
                                      !.error_message = r.error_message]]
  /\ queue' = Tail(queue)
  /\ UNCHANGED <<wpc, stream_is_running, stream_is_paused,
                 first_frame_was_received, created, camera_id,
                 selected_camera_id, settings, status, signals, result, uuids>>
  /\ UNCHANGED <<cpc, ops, idle>>

\* ---- CameraManager.remove_camera with the record's worker ---------------
\* if camera.stream_thread and camera.stream_thread.isRunning(): stop_stream()
RemoveStops_never(t) == FALSE

RemoveStops(t) == t # NoThread /\ isRunning(t)

camera_remove(id) ==
  /\ cpc = "idle"
  /\ Index(id) # 0
  /\ LET old == cameras[Index(id)].stream_thread
         ws == IF RemoveStops(old) THEN {old} ELSE {}
         cs == Without(cameras, id)
         sel == SelectionAfterRemove(selected_camera_id, id)
         sv == save_to_settings(cs, sel, NoError)
     IN  /\ wpc' = Halted(ws)
         /\ stream_is_running' = NotRunning(ws)
         /\ stream_is_paused' = Dropped(stream_is_paused, ws)
         /\ first_frame_was_received' = Dropped(first_frame_was_received, ws)
         /\ camera_id' = Unbound(ws)
         /\ queue' = IF ws = {} THEN queue ELSE Disconnected(old, queue)
         /\ cameras' = cs
         /\ selected_camera_id' = sel
         /\ Saved(sv)
         /\ signals' = <<Signal("camera_removed", id)>>
         /\ result' = Result("remove", TRUE)
  /\ UNCHANGED <<created, uuids>>
  /\ UNCHANGED <<cpc, ops, idle>>

\* ---- Windows.closeEvent -------------------------------------------------
\* Every camera whose thread is running has stop_stream called, then the
\* registry is saved and the process ends.
CloseStops_never(t) == FALSE

CloseStops(t) == t # NoThread /\ isRunning(t)

closeEvent ==
  /\ cpc = "idle"
  /\ LET hit == {i \in 1..Len(cameras) : CloseStops(cameras[i].stream_thread)}
         ws == {cameras[i].stream_thread : i \in hit}
         cs == [i \in 1..Len(cameras) |->
                  IF i \in hit THEN StoppedRecord(cameras[i]) ELSE cameras[i]]
         sv == save_to_settings(cs, selected_camera_id, NoError)
     IN  /\ wpc' = Halted(ws)
         /\ stream_is_running' = NotRunning(ws)
         /\ queue' = SelectSeq(queue, LAMBDA e :
                       ~(e.w \in ws /\ e.kind \in {"first_frame", "error"}))
         /\ stream_is_paused' = Dropped(stream_is_paused, ws)
         /\ first_frame_was_received' = Dropped(first_frame_was_received, ws)
         /\ camera_id' = Unbound(ws)
         /\ cameras' = cs
         /\ Saved(sv)
         /\ result' = Result("save", sv.ret)
  /\ signals' = <<>>
  /\ cpc' = "closed"
  /\ UNCHANGED <<created, selected_camera_id, uuids>>
  /\ UNCHANGED <<ops, idle>>

\* ---- Windows.__init__ of the next run -----------------------------------
\* A new process: no StreamThread exists, no call is queued, and the
\* registry is loaded from the store the last run left.
window_init ==
  /\ cpc = "closed"
  /\ Loaded
  /\ wpc' = [w \in Workers |-> "new"]
  /\ stream_is_running' = [w \in Workers |-> FALSE]
  /\ stream_is_paused' = [w \in Workers |-> FALSE]
  /\ first_frame_was_received' = [w \in Workers |-> FALSE]
  /\ camera_id' = [w \in Workers |-> None]
  /\ queue' = <<>>
  /\ cpc' = "idle"
  /\ UNCHANGED created
  /\ UNCHANGED <<ops, idle>>

\* CameraManager.add_camera while the window is open
camera_add ==
  /\ cpc = "idle"
  /\ uuids < MaxFleet
  /\ add_camera("Camera", "192.168.1.100", NoError)

FleetNext ==
  \/ camera_add
  \/ \E id \in CameraIds : camera_start_stream(id)
  \/ \E id \in CameraIds : camera_stop_stream(id)
  \/ \E id \in CameraIds, paused \in BOOLEAN : camera_pause_stream(id, paused)
  \/ \E id \in CameraIds : camera_remove(id)
  \/ camera_handle_event
  \/ \E w \in Workers : thread_connected(w)
  \/ \E w \in Workers : thread_first_frame(w)
  \/ \E w \in Workers : thread_error(w)
  \/ closeEvent

FleetSpec == Init /\ [][FleetNext]_vars

\* the same with the next run of the application following a close
RestartNext ==
  \/ FleetNext
  \/ window_init

RestartSpec == Init /\ [][RestartNext]_vars

\* ---- C35 ------------------------------------------------------------------
Active == {STARTING, RUNNING, PAUSED}

\* C35: in every reachable state, the one right after load() included, every
\* record of the registry whose state is STARTING, RUNNING or PAUSED owns a
\* worker.
C35_ActiveOwnsWorker ==
  \A i \in 1..Len(cameras) :
    cameras[i].state \in Active => cameras[i].stream_thread # NoThread

\* ---- C36 ------------------------------------------------------------------
Owned(w) == \E i \in 1..Len(cameras) : cameras[i].stream_thread = w

\* C36: every worker whose thread is running is the stream_thread of a
\* record in the registry, so a record that was removed left no running
\* worker behind, and once closeEvent has returned no worker is running.
C36_LiveWorkersOwned ==
  /\ \A w \in Workers : isRunning(w) => Owned(w)
  /\ cpc = "closed" => \A w \in Workers : ~isRunning(w)

\* The only command so far was the start of worker 1, and remove_camera
\* stopped that worker and disconnected it while it ran.
C36_Witness ==
  /\ cpc = "idle"
  /\ ops = 1
  /\ created = 1
  /\ wpc[1] = "finished"
  /\ camera_id[1] = None
  /\ result = Result("remove", TRUE)
  /\ ~Owned(1)

\* ---- C32 ------------------------------------------------------------------
\* every record with another id is what it was, at the place it was
OthersKept(id) ==
  /\ Len(cameras') = Len(cameras)
  /\ \A i \in 1..Len(cameras) :
       cameras[i].id # id =>
         /\ cameras'[i].id = cameras[i].id
         /\ cameras'[i].state = cameras[i].state
         /\ cameras'[i].error_message = cameras[i].error_message
         /\ cameras'[i].stream_thread = cameras[i].stream_thread

\* a step of the record with that id: one of its commands, a step of its
\* worker, or the delivery of an event one of its workers emitted
StepOf(id) ==
  \/ camera_start_stream(id)
  \/ camera_stop_stream(id)
  \/ \E paused \in BOOLEAN : camera_pause_stream(id, paused)
  \/ \E w \in Workers :
       /\ camera_id[w] = id
       /\ thread_connected(w) \/ thread_first_frame(w) \/ thread_error(w)
  \/ camera_handle_event /\ camera_id[Head(queue).w] = id

\* C32: a command on one record, a step of its worker and the delivery of
\* its worker's events leave state, error_message and stream_thread of
\* every other record unchanged.
C32_OtherRecordsUnchanged ==
  [][\A id \in 1..MaxFleet : StepOf(id) => OthersKept(id)]_vars

\* Record 1 went to ERROR by its worker's event while record 2 streams with
\* its own worker.
C32_Witness ==
  /\ Len(cameras) = 2
  /\ cameras[1].state = ERROR
  /\ cameras[1].error_message # ""
  /\ cameras[2].state = RUNNING
  /\ cameras[2].stream_thread # NoThread
  /\ cameras[2].error_message = ""

\* ======================================================================
\* What the window and the log are given of a record's address
\* ======================================================================
\* Texts are strings.  given holds the same record twice, the second with
\* another username and password; every call is made on both and its two
\* return values are kept side by side.
Usernames == {"", "admin", "root"}
TypedPasswords == {"", "a", "ab"}

Record(username, password, st) ==
  [id |-> "7c9e", name |-> "Camera", protocol |-> "rtsp",
   username |-> username, password |-> password,
   ip_address |-> "192.168.1.100", port |-> "554", stream_path |-> "stream",
   state |-> st]

\* f"{protocol}://{username}:{password}@{ip_address}:{port}/{stream_path}"
\* when both username and password are set
get_url(c) ==
  IF c.username # "" /\ c.password # ""
  THEN c.protocol \o "://" \o c.username \o ":" \o c.password \o "@"
         \o c.ip_address \o ":" \o c.port \o "/" \o c.stream_path
  ELSE c.protocol \o "://" \o c.ip_address \o ":" \o c.port \o "/"
         \o c.stream_path

get_safe_url(c) ==
  c.protocol \o "://" \o c.ip_address \o ":" \o c.port \o "/" \o c.stream_path

get_safe_info(c) ==
  "Camera(id=" \o c.id \o ", name=" \o c.name \o ", ip=" \o c.ip_address
    \o ":" \o c.port \o ", state=" \o c.state \o ")"

\* ''.join('*' for char in input_string)
RECURSIVE Stars(_)
Stars(n) == IF n = 0 THEN "" ELSE "*" \o Stars(n - 1)

replace_letters_with_asterisks(input_string) == Stars(Len(input_string))

\* camera.state.value.capitalize()
Capitalize(st) ==
  CASE st = STOPPED -> "Stopped"
    [] st = STARTING -> "Starting"
    [] st = RUNNING -> "Running"
    [] st = PAUSED -> "Paused"
    [] st = ERROR -> "Error"

\* handle_camera_selection: the two texts update_status_bar is handed
status_msg(c) == "Selected: " \o c.name \o " (" \o Capitalize(c.state) \o ")"

url_display(c) ==
  IF c.username # "" /\ c.password # ""
  THEN c.protocol \o "://" \o c.username \o ":"
         \o replace_letters_with_asterisks(c.password) \o "@"
         \o c.ip_address \o ":" \o c.port \o "/" \o c.stream_path
  ELSE c.protocol \o "://" \o c.ip_address \o ":" \o c.port \o "/"
         \o c.stream_path

\* the texts a worker's error_signal carries
ErrorTexts == {TimeoutMsg, OpenFailedMsg, ReadFailedMsg}

\* what a call made on both records leaves alone
unshown == <<given, timedOut, camera_id, cameras, selected_camera_id, settings,
             status, signals, result, uuids, state, error_message,
             stream_thread, created, wvars, queue, cpc, ops, lastOp,
             pauseWindow, sincePause>>

Both(fn, r1, r2) == Append(calls, Call(fn, given, <<r1, r2>>))

\* start_stream: StreamThread(self.get_url(), ...), the worker's connect call
connect_get_url ==
  /\ Len(calls) < MaxCalls
  /\ calls' = Both("get_url", get_url(given[1]), get_url(given[2]))
  /\ UNCHANGED unshown

log_get_safe_url ==
  /\ Len(calls) < MaxCalls
  /\ calls' = Both("get_safe_url", get_safe_url(given[1]), get_safe_url(given[2]))
  /\ UNCHANGED unshown

log_get_safe_info ==
  /\ Len(calls) < MaxCalls
  /\ calls' = Both("get_safe_info", get_safe_info(given[1]),
                   get_safe_info(given[2]))
  /\ UNCHANGED unshown

handle_camera_selection ==
  /\ Len(calls) < MaxCalls
  /\ calls' = Both("update_status_bar",
                   <<status_msg(given[1]), url_display(given[1])>>,
                   <<status_msg(given[2]), url_display(given[2])>>)
  /\ UNCHANGED unshown

emit_error_signal(text) ==
  /\ Len(calls) < MaxCalls
  /\ calls' = Both("error_signal", text, text)
  /\ UNCHANGED unshown

DisplayInit ==
  /\ StreamInit
  /\ RegistryInit
  /\ given \in {<<Record(u1, p1, st), Record(u2, p2, st)>> :
                  u1 \in Usernames, p1 \in TypedPasswords,
                  u2 \in Usernames, p2 \in TypedPasswords,
                  st \in {STOPPED, RUNNING}}
  /\ calls = <<>>

DisplayNext ==
  \/ connect_get_url
  \/ log_get_safe_url
  \/ log_get_safe_info
  \/ handle_camera_selection
  \/ \E text \in ErrorTexts : emit_error_signal(text)

DisplaySpec == DisplayInit /\ [][DisplayNext]_vars

\* ---- C31 ------------------------------------------------------------------
\* C31: for two records that differ only in username and password, every
\* text other than the address handed to the worker's connect call is the
\* same for both: the event texts, the safe info, the sanitized address and
\* what the status bar is given.
C31_CredentialsNotShown ==
  \A k \in 1..Len(calls) :
    calls[k].fn # "get_url" => calls[k].ret[1] = calls[k].ret[2]

====
